---- MODULE Spec2Model ----
(***************************************************************************)
(* Swipe predictor: the gesture predictor (predictor.rs, types.rs,          *)
(* physics.rs) and the context / handle layer with shared ownership of the  *)
(* predictor table (ffi.rs).                                                *)
(*                                                                          *)
(* Spec          : caller threads driving the C entry points of ffi.rs.     *)
(*                 Every entry point that takes the table lock is two       *)
(*                 steps: acquire the mutex, then the critical section      *)
(*                 with the release and the return.                         *)
(* SpecPredictor : one GesturePredictor driven sequentially.                *)
(* SpecNumeric   : one GesturePredictor fed coordinates that are no         *)
(*                 numbers, under several configurations.                   *)
(* SpecDecel     : one GesturePredictor fed gestures that slow down.        *)
(* SpecPhysics   : PhysicsConfig::calculate_stopping_distance alone.        *)
(* SpecBridge    : the id-to-handle map of ios_bridge.rs / android.rs.      *)
(* SpecManager   : the global PredictorManager of lib.rs.                   *)
(* SpecLocks     : caller threads in the entry points of the bridge, with   *)
(*                 the storage mutex and the table mutex they take.         *)
(*                                                                          *)
(* f64 values that the code tests for sign or finiteness, and the           *)
(* coordinates of a sample, are records [k, v] (a number, NaN, +inf,        *)
(* -inf); timestamps the code has already validated are kept as integers.   *)
(* Pixels and milliseconds are integers.                                    *)
(***************************************************************************)
EXTENDS Integers, Sequences, FiniteSets, TLC

VARIABLES
    contexts,   \* Box<PredictorContext> per context pointer
    tables,     \* Arc<Mutex<PredictorContextInner>> per heap cell
    handles,    \* Box<PredictorHandle> per handle pointer
    threads,    \* position and locals of every caller thread
    ret,        \* what the step just taken returned to its caller, if it returned
    ub,         \* undefined behaviour the run has executed, "none" if none
    gp,         \* SpecPredictor: the GesturePredictor
    accepted,   \* SpecPredictor: samples accepted since creation / last reset
    gpRet,      \* SpecPredictor: the last call and what it returned
    physRet,    \* SpecPhysics: the last calculate_stopping_distance and its result
    bridge,     \* SpecBridge: the HandleStorage of the iOS / Android bridge
    manager,    \* SpecManager: PREDICTOR_MANAGER of lib.rs
    locks,      \* SpecLocks: the storage mutex, the table mutex, the callers
    legacyRet   \* SpecBridge, SpecManager: the last call of the legacy API and
                \* what it returned

vars == <<contexts, tables, handles, threads, ret, ub, gp, accepted, gpRet,
          physRet, bridge, manager, locks, legacyRet>>
ffiVars == <<contexts, tables, handles, threads, ret, ub>>
gpVars == <<gp, accepted, gpRet>>
otherVars == <<physRet, bridge, manager, locks, legacyRet>>

----------------------------------------------------------------------------
(* Bounds of the model *)

NumThreads == 2        \* caller threads
MaxContexts == 1       \* context pointers (addresses are reused after free)
MaxTables == 1         \* heap cells for tables (reused after free)
MaxHandles == 2        \* handle pointers (addresses are reused after free)
MaxPredictors == 2     \* stands for MAX_PREDICTORS = 10000
IdModulus == 3         \* stands for the range of u32, 2^32
MaxPoints == 2         \* callers of Spec stop adding at this buffer length
MaxAccepted == 5       \* SpecPredictor: accepted samples between resets
MaxNumPoints == 4      \* SpecNumeric: samples fed to the predictor
MaxBridgeId == 3       \* stands for i32::MAX, 2^31 - 1
MaxBridgeHandles == 3  \* SpecBridge: heap cells for the handles of the bridge

(* Program constants *)

MIN_BUFFER_SIZE == 2
MAX_BUFFER_SIZE == 100
DEFAULT_BUFFER_SIZE == 10

NULL == 0

Threads == 1..NumThreads
ContextPtrs == 1..MaxContexts
TablePtrs == 1..MaxTables
HandlePtrs == 1..MaxHandles

----------------------------------------------------------------------------
(* f64 *)

F(n) == [k |-> "num", v |-> n]
NaN == [k |-> "nan", v |-> 0]
PosInf == [k |-> "inf", v |-> 1]
NegInf == [k |-> "inf", v |-> -1]

IsFinite(a) == a.k = "num"

\* a < b on f64: false as soon as one side is NaN
FLt(a, b) ==
    IF a.k = "nan" \/ b.k = "nan" THEN FALSE
    ELSE IF a.k = "num" /\ b.k = "num" THEN a.v < b.v
    ELSE IF a.k = "inf" /\ b.k = "inf" THEN a.v < b.v
    ELSE IF a.k = "inf" THEN a.v < 0
    ELSE b.v > 0

\* a >= b on f64
FGe(a, b) == ~(a.k = "nan" \/ b.k = "nan") /\ ~FLt(a, b)

\* a <= b on f64
FLe(a, b) == FGe(b, a)

None == <<>>
Some(v) == <<v>>

----------------------------------------------------------------------------
(* types.rs *)

\* Timestamp::is_valid
TimestampIsValid(t) == FGe(t, F(0)) /\ IsFinite(t)

\* Timestamp::duration_since, on validated timestamps
DurationSince(later, earlier) ==
    IF later >= earlier THEN Some(later - earlier) ELSE None

\* TouchPoint::new
TouchPointNew(x, y, timestamp_ms) ==
    IF TimestampIsValid(timestamp_ms)
    THEN Some([x |-> x, y |-> y, t |-> timestamp_ms.v])
    ELSE None

----------------------------------------------------------------------------
(* physics.rs *)

\* PhysicsConfig::default
DefaultConfig ==
    [deceleration_rate |-> F(1500),
     min_velocity_threshold |-> F(50),
     min_gesture_time_ms |-> F(30)]

\* a validate that lets a deceleration rate of zero pass
ValidateAcceptsZero(c) ==
    IF FLt(c.deceleration_rate, F(0))
    THEN [ok |-> FALSE, field |-> "deceleration_rate", reason |-> "must be positive"]
    ELSE IF ~IsFinite(c.deceleration_rate)
    THEN [ok |-> FALSE, field |-> "deceleration_rate", reason |-> "must be finite"]
    ELSE IF FLt(c.min_velocity_threshold, F(0))
    THEN [ok |-> FALSE, field |-> "min_velocity_threshold", reason |-> "cannot be negative"]
    ELSE IF ~IsFinite(c.min_velocity_threshold)
    THEN [ok |-> FALSE, field |-> "min_velocity_threshold", reason |-> "must be finite"]
    ELSE IF FLt(c.min_gesture_time_ms, F(0))
    THEN [ok |-> FALSE, field |-> "min_gesture_time_ms", reason |-> "cannot be negative"]
    ELSE IF ~IsFinite(c.min_gesture_time_ms)
    THEN [ok |-> FALSE, field |-> "min_gesture_time_ms", reason |-> "must be finite"]
    ELSE [ok |-> TRUE, field |-> "", reason |-> ""]

\* PhysicsConfig::validate: Ok, or the field and reason of the first failure
Validate(c) ==
    IF FLe(c.deceleration_rate, F(0))
    THEN [ok |-> FALSE, field |-> "deceleration_rate", reason |-> "must be positive"]
    ELSE IF ~IsFinite(c.deceleration_rate)
    THEN [ok |-> FALSE, field |-> "deceleration_rate", reason |-> "must be finite"]
    ELSE IF FLt(c.min_velocity_threshold, F(0))
    THEN [ok |-> FALSE, field |-> "min_velocity_threshold", reason |-> "cannot be negative"]
    ELSE IF ~IsFinite(c.min_velocity_threshold)
    THEN [ok |-> FALSE, field |-> "min_velocity_threshold", reason |-> "must be finite"]
    ELSE IF FLt(c.min_gesture_time_ms, F(0))
    THEN [ok |-> FALSE, field |-> "min_gesture_time_ms", reason |-> "cannot be negative"]
    ELSE IF ~IsFinite(c.min_gesture_time_ms)
    THEN [ok |-> FALSE, field |-> "min_gesture_time_ms", reason |-> "must be finite"]
    ELSE [ok |-> TRUE, field |-> "", reason |-> ""]

----------------------------------------------------------------------------
(* Arithmetic of the prediction engine.  The code computes in f64; the      *)
(* model computes in exact rationals [n, d] with d > 0, and a square root   *)
(* that is not rational is cut down to a whole number.  The values of f64   *)
(* that are no numbers have d = 0: [1, 0] is +inf, [-1, 0] is -inf and      *)
(* [0, 0] is NaN, and the operations treat them as IEEE 754 does.           *)

Abs(n) == IF n < 0 THEN -n ELSE n

RECURSIVE GCD(_, _)
GCD(a, b) == IF b = 0 THEN a ELSE GCD(b, a % b)

Sign(n) == IF n < 0 THEN -1 ELSE IF n > 0 THEN 1 ELSE 0

R(n, d) ==
    IF d = 0 THEN [n |-> Sign(n), d |-> 0]
    ELSE LET g == GCD(Abs(n), Abs(d))
             s == IF d < 0 THEN -1 ELSE 1
         IN [n |-> (s * n) \div g, d |-> (s * d) \div g]

RInt(k) == [n |-> k, d |-> 1]
RNaN == [n |-> 0, d |-> 0]
RIsNaN(a) == a.n = 0 /\ a.d = 0

\* an f64 argument of the interface as a value of the arithmetic
RF(a) ==
    IF a.k = "num" THEN RInt(a.v)
    ELSE IF a.k = "nan" THEN RNaN
    ELSE [n |-> a.v, d |-> 0]

\* a + b: inf + inf is inf, inf - inf is NaN
RAdd(a, b) ==
    IF a.d = 0 /\ b.d = 0 THEN (IF a.n = b.n THEN a ELSE RNaN)
    ELSE R(a.n * b.d + b.n * a.d, a.d * b.d)
RSub(a, b) == RAdd(a, [n |-> -b.n, d |-> b.d])
\* a * b: 0 * inf is NaN
RMul(a, b) == R(a.n * b.n, a.d * b.d)
\* a / b: x / 0 is +-inf, 0 / 0 and inf / inf are NaN
RDiv(a, b) ==
    LET s == IF b.n < 0 THEN -1 ELSE 1 IN R(s * a.n * b.d, s * a.d * b.n)
\* a < b: false as soon as one side is NaN
RLt(a, b) ==
    IF a.d = 0 /\ b.d = 0 THEN a.n # 0 /\ b.n # 0 /\ a.n < b.n
    ELSE a.n * b.d < b.n * a.d
RLe(a, b) == ~RIsNaN(a) /\ ~RIsNaN(b) /\ ~RLt(b, a)
\* f64::min: the other argument when one is NaN
RMin(a, b) == IF RIsNaN(a) THEN b ELSE IF RLt(b, a) THEN b ELSE a
\* f64::clamp: NaN stays NaN
RClamp(a, lo, hi) == IF RLt(a, lo) THEN lo ELSE IF RLt(hi, a) THEN hi ELSE a

RECURSIVE IsqrtIter(_, _)
IsqrtIter(n, x) ==
    LET y == (x + n \div x) \div 2 IN IF y >= x THEN x ELSE IsqrtIter(n, y)

\* the largest r with r * r <= n
Isqrt(n) == IF n <= 0 THEN 0 ELSE IsqrtIter(n, n)

\* f64::sqrt
RSqrt(a) ==
    LET rn == Isqrt(a.n)
        rd == Isqrt(a.d)
    IN IF RIsNaN(a) \/ a.n < 0 THEN RNaN
       ELSE IF a.d = 0 THEN a
       ELSE IF rn * rn = a.n /\ rd * rd = a.d THEN R(rn, rd)
       ELSE RInt(Isqrt(a.n \div a.d))

----------------------------------------------------------------------------
(* types.rs, continued *)

\* Point2D::distance_to
DistanceTo(a, b) ==
    LET dx == RSub(RF(b.x), RF(a.x))
        dy == RSub(RF(b.y), RF(a.y))
    IN RSqrt(RAdd(RMul(dx, dx), RMul(dy, dy)))

\* Velocity2D::from_points_and_time, in pixels per second
FromPointsAndTime(start, end, dt_ms) ==
    IF dt_ms <= 0 THEN None
    ELSE LET dt_seconds == R(dt_ms, 1000)
         IN Some([x |-> RDiv(RSub(RF(end.x), RF(start.x)), dt_seconds),
                  y |-> RDiv(RSub(RF(end.y), RF(start.y)), dt_seconds)])

\* Velocity2D::speed
Speed(v) == RSqrt(RAdd(RMul(v.x, v.x), RMul(v.y, v.y)))

\* Prediction::new
PredictionNew(position, confidence) ==
    [kind |-> "Ok", x |-> position.x, y |-> position.y,
     confidence |-> RClamp(confidence, RInt(0), RInt(1))]

\* Err(PredictorError::...) of a prediction
PredictionErr(kind) ==
    [kind |-> kind, x |-> RInt(0), y |-> RInt(0), confidence |-> RInt(0)]

----------------------------------------------------------------------------
(* physics.rs, continued *)

\* the comparison speed < f64::EPSILON: the speeds of the model are zero or
\* far above EPSILON, and NaN is below nothing
BelowEpsilon(speed) == speed.n = 0 /\ speed.d # 0

\* a stopping distance of v * t, the deceleration term left out
CalculateStoppingDistanceNoBraking(c, velocity_x, velocity_y) ==
    LET speed == RSqrt(RAdd(RMul(velocity_x, velocity_x), RMul(velocity_y, velocity_y)))
        a == RInt(c.deceleration_rate.v)
        time_to_stop == RDiv(speed, a)
        Dist(v) == RMul(v, time_to_stop)
    IN IF RLt(speed, RInt(c.min_velocity_threshold.v))
       THEN [ok |-> FALSE, x |-> RInt(0), y |-> RInt(0), t |-> RInt(0)]
       ELSE IF BelowEpsilon(speed)
       THEN [ok |-> TRUE, x |-> RInt(0), y |-> RInt(0), t |-> RInt(0)]
       ELSE [ok |-> TRUE, x |-> Dist(velocity_x), y |-> Dist(velocity_y), t |-> time_to_stop]

\* PhysicsConfig::calculate_stopping_distance
CalculateStoppingDistance(c, velocity_x, velocity_y) ==
    LET speed == RSqrt(RAdd(RMul(velocity_x, velocity_x), RMul(velocity_y, velocity_y)))
        a == RInt(c.deceleration_rate.v)
        time_to_stop == RDiv(speed, a)
        half == R(1, 2)
        Dist(v) == RSub(RMul(v, time_to_stop),
                        RMul(RMul(RMul(RMul(half, RDiv(v, speed)), a), time_to_stop),
                             time_to_stop))
    IN IF RLt(speed, RInt(c.min_velocity_threshold.v))
       THEN [ok |-> FALSE, x |-> RInt(0), y |-> RInt(0), t |-> RInt(0)]
       ELSE IF BelowEpsilon(speed)
       THEN [ok |-> TRUE, x |-> RInt(0), y |-> RInt(0), t |-> RInt(0)]
       ELSE [ok |-> TRUE, x |-> Dist(velocity_x), y |-> Dist(velocity_y), t |-> time_to_stop]

----------------------------------------------------------------------------
(* predictor.rs *)

Clamp(n, lo, hi) == IF n < lo THEN lo ELSE IF n > hi THEN hi ELSE n

\* GesturePredictor::with_buffer_size_unchecked
WithBufferSizeUnchecked(physics_config, buffer_size) ==
    [touch_buffer |-> <<>>,
     buffer_size |-> Clamp(buffer_size, MIN_BUFFER_SIZE, MAX_BUFFER_SIZE),
     physics_config |-> physics_config,
     gesture_start_time |-> None]

\* GesturePredictor::new_unchecked
NewUnchecked(physics_config) ==
    WithBufferSizeUnchecked(physics_config, DEFAULT_BUFFER_SIZE)

\* GesturePredictor::new: Some(predictor), or None when validate fails
GesturePredictorNew(physics_config) ==
    IF Validate(physics_config).ok THEN Some(NewUnchecked(physics_config)) ELSE None

\* a buffer that never evicts its oldest sample
MaintainBufferSizeNoEviction(buf, buffer_size) == buf

\* VecDeque::pop_front when the buffer is full
MaintainBufferSize(buf, buffer_size) ==
    IF Len(buf) >= buffer_size THEN Tail(buf) ELSE buf

\* an add_touch_point that rejects a timestamp equal to the last one
AddTouchPointStrict(p, x, y, timestamp_ms) ==
    LET tp == TouchPointNew(x, y, timestamp_ms) IN
    IF tp = None
    THEN [res |-> "InvalidTimestamp", pred |-> p]
    ELSE IF Len(p.touch_buffer) > 0
            /\ tp[1].t <= p.touch_buffer[Len(p.touch_buffer)].t
    THEN [res |-> "TimestampOutOfOrder", pred |-> p]
    ELSE [res |-> "Ok",
          pred |-> [p EXCEPT
              !.gesture_start_time =
                  IF p.gesture_start_time = None THEN Some(tp[1].t) ELSE @,
              !.touch_buffer =
                  Append(MaintainBufferSize(p.touch_buffer, p.buffer_size), tp[1])]]

\* an add_touch_point that buffers the sample before it checks the order
AddTouchPointPushFirst(p, x, y, timestamp_ms) ==
    LET tp == TouchPointNew(x, y, timestamp_ms) IN
    IF tp = None
    THEN [res |-> "InvalidTimestamp", pred |-> p]
    ELSE LET pushed ==
                 [p EXCEPT
                     !.gesture_start_time =
                         IF p.gesture_start_time = None THEN Some(tp[1].t) ELSE @,
                     !.touch_buffer =
                         Append(MaintainBufferSize(p.touch_buffer, p.buffer_size), tp[1])]
         IN IF Len(p.touch_buffer) > 0
               /\ tp[1].t < p.touch_buffer[Len(p.touch_buffer)].t
            THEN [res |-> "TimestampOutOfOrder", pred |-> pushed]
            ELSE [res |-> "Ok", pred |-> pushed]

\* an add_touch_point that restarts the gesture clock at the oldest sample
\* left in the buffer
AddTouchPointRestartsClock(p, x, y, timestamp_ms) ==
    LET tp == TouchPointNew(x, y, timestamp_ms) IN
    IF tp = None
    THEN [res |-> "InvalidTimestamp", pred |-> p]
    ELSE IF Len(p.touch_buffer) > 0
            /\ tp[1].t < p.touch_buffer[Len(p.touch_buffer)].t
    THEN [res |-> "TimestampOutOfOrder", pred |-> p]
    ELSE LET buf == Append(MaintainBufferSize(p.touch_buffer, p.buffer_size), tp[1])
         IN [res |-> "Ok",
             pred |-> [p EXCEPT !.gesture_start_time = Some(buf[1].t),
                                !.touch_buffer = buf]]

\* GesturePredictor::add_touch_point: the result and the predictor afterwards
AddTouchPoint(p, x, y, timestamp_ms) ==
    LET tp == TouchPointNew(x, y, timestamp_ms) IN
    IF tp = None
    THEN [res |-> "InvalidTimestamp", pred |-> p]
    ELSE IF Len(p.touch_buffer) > 0
            /\ tp[1].t < p.touch_buffer[Len(p.touch_buffer)].t
    THEN [res |-> "TimestampOutOfOrder", pred |-> p]
    ELSE [res |-> "Ok",
          pred |-> [p EXCEPT
              !.gesture_start_time =
                  IF p.gesture_start_time = None THEN Some(tp[1].t) ELSE @,
              !.touch_buffer =
                  Append(MaintainBufferSize(p.touch_buffer, p.buffer_size), tp[1])]]

\* a reset that clears the buffer and keeps the start time
ResetKeepsStartTime(p) == [p EXCEPT !.touch_buffer = <<>>]

\* GesturePredictor::reset
Reset(p) == [p EXCEPT !.touch_buffer = <<>>, !.gesture_start_time = None]

\* a gesture duration measured from the oldest sample still in the buffer
CalculateGestureDurationBuffered(p) ==
    IF Len(p.touch_buffer) > 0
    THEN LET d == DurationSince(p.touch_buffer[Len(p.touch_buffer)].t,
                                p.touch_buffer[1].t)
         IN IF d = None THEN 0 ELSE d[1]
    ELSE 0

\* GesturePredictor::calculate_gesture_duration
CalculateGestureDuration(p) ==
    IF p.gesture_start_time # None /\ Len(p.touch_buffer) > 0
    THEN LET d == DurationSince(p.touch_buffer[Len(p.touch_buffer)].t,
                                p.gesture_start_time[1])
         IN IF d = None THEN 0 ELSE d[1]
    ELSE 0

\* the loop of calculate_weighted_velocity over the samples 2..k of the
\* buffer: the totals of velocity * weight and of weight.  The sample at
\* position k has the index i = k - 1 of enumerate().
RECURSIVE WeightedTotals(_, _)
WeightedTotals(buf, k) ==
    IF k < 2 THEN [x |-> RInt(0), y |-> RInt(0), w |-> RInt(0)]
    ELSE LET acc == WeightedTotals(buf, k - 1)
             n == Len(buf)
             dt == DurationSince(buf[k].t, buf[k - 1].t)
             velocity == IF dt = None THEN None
                         ELSE FromPointsAndTime(buf[k - 1], buf[k], dt[1])
             weight == R((k - 1) * (k - 1), n * n)
         IN IF dt # None /\ dt[1] > 0 /\ velocity # None
            THEN [x |-> RAdd(acc.x, RMul(velocity[1].x, weight)),
                  y |-> RAdd(acc.y, RMul(velocity[1].y, weight)),
                  w |-> RAdd(acc.w, weight)]
            ELSE acc

\* a calculate_weighted_velocity that divides by the total weight without
\* looking at it
CalculateWeightedVelocityUnguarded(p) ==
    IF Len(p.touch_buffer) < 2
    THEN [res |-> "InsufficientData", x |-> RInt(0), y |-> RInt(0)]
    ELSE LET tot == WeightedTotals(p.touch_buffer, Len(p.touch_buffer))
         IN [res |-> "Ok", x |-> RDiv(tot.x, tot.w), y |-> RDiv(tot.y, tot.w)]

\* a calculate_weighted_velocity that fails as soon as one pair was skipped
CalculateWeightedVelocityAllPairs(p) ==
    IF Len(p.touch_buffer) < 2
    THEN [res |-> "InsufficientData", x |-> RInt(0), y |-> RInt(0)]
    ELSE LET tot == WeightedTotals(p.touch_buffer, Len(p.touch_buffer))
         IN IF /\ RLt(RInt(0), tot.w)
               /\ \A k \in 2..Len(p.touch_buffer) :
                      p.touch_buffer[k].t > p.touch_buffer[k - 1].t
            THEN [res |-> "Ok", x |-> RDiv(tot.x, tot.w), y |-> RDiv(tot.y, tot.w)]
            ELSE [res |-> "NumericalError", x |-> RInt(0), y |-> RInt(0)]

\* GesturePredictor::calculate_weighted_velocity
CalculateWeightedVelocity(p) ==
    IF Len(p.touch_buffer) < 2
    THEN [res |-> "InsufficientData", x |-> RInt(0), y |-> RInt(0)]
    ELSE LET tot == WeightedTotals(p.touch_buffer, Len(p.touch_buffer))
         IN IF RLt(RInt(0), tot.w)
            THEN [res |-> "Ok", x |-> RDiv(tot.x, tot.w), y |-> RDiv(tot.y, tot.w)]
            ELSE [res |-> "NumericalError", x |-> RInt(0), y |-> RInt(0)]

\* the path length summed by calculate_straightness_score over samples 1..k
RECURSIVE PathDistance(_, _)
PathDistance(buf, k) ==
    IF k < 2 THEN RInt(0)
    ELSE RAdd(PathDistance(buf, k - 1), DistanceTo(buf[k - 1], buf[k]))

\* GesturePredictor::calculate_straightness_score
CalculateStraightnessScore(p) ==
    LET buf == p.touch_buffer IN
    IF Len(buf) < 3 THEN RInt(1)
    ELSE LET direct_distance == DistanceTo(buf[1], buf[Len(buf)])
         IN IF RLt(direct_distance, RInt(1)) THEN RInt(0)
            ELSE RClamp(RDiv(direct_distance, PathDistance(buf, Len(buf))),
                        RInt(0), RInt(1))

\* the speeds pushed by is_gesture_decelerating for the samples from..k
RECURSIVE RecentSpeeds(_, _, _)
RecentSpeeds(buf, from, k) ==
    IF k <= from THEN <<>>
    ELSE LET before == RecentSpeeds(buf, from, k - 1)
             dt == DurationSince(buf[k].t, buf[k - 1].t)
         IN IF dt # None /\ dt[1] > 0
            THEN Append(before,
                        RMul(RDiv(DistanceTo(buf[k - 1], buf[k]), RInt(dt[1])),
                             RInt(1000)))
            ELSE before

\* DECELERATION_FACTOR = 0.9
DECELERATION_FACTOR == R(9, 10)

\* an is_gesture_decelerating that starts at three samples
IsGestureDeceleratingFromThree(p) ==
    LET buf == p.touch_buffer
        n == Len(buf)
    IN IF n < 3 THEN FALSE
       ELSE LET recent_speeds == RecentSpeeds(buf, IF n < 4 THEN 1 ELSE n - 3, n)
            IN IF Len(recent_speeds) >= 2
               THEN \A i \in 1..(Len(recent_speeds) - 1) :
                        RLt(recent_speeds[i + 1],
                            RMul(recent_speeds[i], DECELERATION_FACTOR))
               ELSE FALSE

\* GesturePredictor::is_gesture_decelerating
IsGestureDecelerating(p) ==
    LET buf == p.touch_buffer
        n == Len(buf)
    IN IF n < 4 THEN FALSE
       ELSE LET recent_speeds == RecentSpeeds(buf, n - 3, n)
            IN IF Len(recent_speeds) >= 2
               THEN \A i \in 1..(Len(recent_speeds) - 1) :
                        RLt(recent_speeds[i + 1],
                            RMul(recent_speeds[i], DECELERATION_FACTOR))
               ELSE FALSE

SPEED_CONFIDENCE_SCALE == 500
DURATION_CONFIDENCE_SCALE == 100

\* GesturePredictor::calculate_confidence
CalculateConfidence(p, speed, gesture_duration) ==
    LET speed_confidence == RMin(RDiv(speed, RInt(SPEED_CONFIDENCE_SCALE)), RInt(1))
        duration_confidence ==
            RClamp(R(gesture_duration - p.physics_config.min_gesture_time_ms.v,
                     DURATION_CONFIDENCE_SCALE),
                   RInt(0), RInt(1))
        straightness_score == CalculateStraightnessScore(p)
        deceleration_penalty == IF IsGestureDecelerating(p) THEN R(1, 2) ELSE RInt(1)
    IN RMul(RMul(RMul(speed_confidence, duration_confidence), straightness_score),
            deceleration_penalty)

\* a predict that asks for three samples
PredictNeedsThree(p) ==
    IF Len(p.touch_buffer) < 3 THEN PredictionErr("InsufficientData")
    ELSE LET gesture_duration == CalculateGestureDuration(p) IN
    IF gesture_duration < p.physics_config.min_gesture_time_ms.v
    THEN PredictionErr("GestureTooShort")
    ELSE LET velocity == CalculateWeightedVelocity(p) IN
    IF velocity.res # "Ok" THEN PredictionErr(velocity.res)
    ELSE LET speed == Speed(velocity) IN
    IF RLt(speed, RInt(p.physics_config.min_velocity_threshold.v))
    THEN PredictionErr("VelocityTooLow")
    ELSE LET current_point == p.touch_buffer[Len(p.touch_buffer)]
             distance == CalculateStoppingDistance(p.physics_config,
                                                   velocity.x, velocity.y)
         IN IF ~distance.ok THEN PredictionErr("VelocityTooLow")
            ELSE PredictionNew(
                     [x |-> RAdd(RF(current_point.x), distance.x),
                      y |-> RAdd(RF(current_point.y), distance.y)],
                     CalculateConfidence(p, speed, gesture_duration))

\* a predict that estimates the velocity before it looks at the duration
PredictVelocityFirst(p) ==
    IF Len(p.touch_buffer) < 2 THEN PredictionErr("InsufficientData")
    ELSE LET velocity == CalculateWeightedVelocity(p) IN
    IF velocity.res # "Ok" THEN PredictionErr(velocity.res)
    ELSE LET gesture_duration == CalculateGestureDuration(p) IN
    IF gesture_duration < p.physics_config.min_gesture_time_ms.v
    THEN PredictionErr("GestureTooShort")
    ELSE LET speed == Speed(velocity) IN
    IF RLt(speed, RInt(p.physics_config.min_velocity_threshold.v))
    THEN PredictionErr("VelocityTooLow")
    ELSE LET current_point == p.touch_buffer[Len(p.touch_buffer)]
             distance == CalculateStoppingDistance(p.physics_config,
                                                   velocity.x, velocity.y)
         IN IF ~distance.ok THEN PredictionErr("VelocityTooLow")
            ELSE PredictionNew(
                     [x |-> RAdd(RF(current_point.x), distance.x),
                      y |-> RAdd(RF(current_point.y), distance.y)],
                     CalculateConfidence(p, speed, gesture_duration))

\* GesturePredictor::predict
Predict(p) ==
    IF Len(p.touch_buffer) < 2 THEN PredictionErr("InsufficientData")
    ELSE LET gesture_duration == CalculateGestureDuration(p) IN
    IF gesture_duration < p.physics_config.min_gesture_time_ms.v
    THEN PredictionErr("GestureTooShort")
    ELSE LET velocity == CalculateWeightedVelocity(p) IN
    IF velocity.res # "Ok" THEN PredictionErr(velocity.res)
    ELSE LET speed == Speed(velocity) IN
    IF RLt(speed, RInt(p.physics_config.min_velocity_threshold.v))
    THEN PredictionErr("VelocityTooLow")
    ELSE LET current_point == p.touch_buffer[Len(p.touch_buffer)]
             distance == CalculateStoppingDistance(p.physics_config,
                                                   velocity.x, velocity.y)
         IN IF ~distance.ok THEN PredictionErr("VelocityTooLow")
            ELSE PredictionNew(
                     [x |-> RAdd(RF(current_point.x), distance.x),
                      y |-> RAdd(RF(current_point.y), distance.y)],
                     CalculateConfidence(p, speed, gesture_duration))

\* a detect_cancellation that looks for a reversal only from four samples on
DetectCancellationNeedsFour(p) ==
    LET buf == p.touch_buffer
        n == Len(buf)
    IN IF n < 4 THEN FALSE
       ELSE LET p1 == buf[n - 2]
                p2 == buf[n - 1]
                p3 == buf[n]
                v1 == [x |-> RSub(RF(p2.x), RF(p1.x)), y |-> RSub(RF(p2.y), RF(p1.y))]
                v2 == [x |-> RSub(RF(p3.x), RF(p2.x)), y |-> RSub(RF(p3.y), RF(p2.y))]
                dot_product == RAdd(RMul(v1.x, v2.x), RMul(v1.y, v2.y))
                velocity == CalculateWeightedVelocity(p)
            IN IF RLt(dot_product, RInt(0)) THEN TRUE
               ELSE IF IsGestureDecelerating(p) /\ velocity.res = "Ok"
               THEN RLt(Speed(velocity),
                        RMul(RInt(p.physics_config.min_velocity_threshold.v), R(1, 2)))
               ELSE FALSE

\* a detect_cancellation that does not ask whether the gesture decelerates
DetectCancellationSlowOnly(p) ==
    LET buf == p.touch_buffer
        n == Len(buf)
    IN IF n < 3 THEN FALSE
       ELSE LET p1 == buf[n - 2]
                p2 == buf[n - 1]
                p3 == buf[n]
                v1 == [x |-> RSub(RF(p2.x), RF(p1.x)), y |-> RSub(RF(p2.y), RF(p1.y))]
                v2 == [x |-> RSub(RF(p3.x), RF(p2.x)), y |-> RSub(RF(p3.y), RF(p2.y))]
                dot_product == RAdd(RMul(v1.x, v2.x), RMul(v1.y, v2.y))
                velocity == CalculateWeightedVelocity(p)
            IN IF RLt(dot_product, RInt(0)) THEN TRUE
               ELSE IF velocity.res = "Ok"
               THEN RLt(Speed(velocity),
                        RMul(RInt(p.physics_config.min_velocity_threshold.v), R(1, 2)))
               ELSE FALSE

\* GesturePredictor::detect_cancellation
DetectCancellation(p) ==
    LET buf == p.touch_buffer
        n == Len(buf)
    IN IF n < 3 THEN FALSE
       ELSE LET p1 == buf[n - 2]
                p2 == buf[n - 1]
                p3 == buf[n]
                v1 == [x |-> RSub(RF(p2.x), RF(p1.x)), y |-> RSub(RF(p2.y), RF(p1.y))]
                v2 == [x |-> RSub(RF(p3.x), RF(p2.x)), y |-> RSub(RF(p3.y), RF(p2.y))]
                dot_product == RAdd(RMul(v1.x, v2.x), RMul(v1.y, v2.y))
                velocity == CalculateWeightedVelocity(p)
            IN IF RLt(dot_product, RInt(0)) THEN TRUE
               ELSE IF IsGestureDecelerating(p) /\ velocity.res = "Ok"
               THEN RLt(Speed(velocity),
                        RMul(RInt(p.physics_config.min_velocity_threshold.v), R(1, 2)))
               ELSE FALSE

----------------------------------------------------------------------------
(* ffi.rs: memory *)

CRASHED == -1

NoPrediction == PredictionErr("none")

\* a context pointer that is not allocated, a table cell that is not
\* allocated, a handle pointer that is not allocated
BlankContext(status) == [status |-> status, inner |-> NULL]
BlankTable ==
    [alive |-> FALSE, strong |-> 0, locked_by |-> 0, poisoned |-> FALSE,
     predictors |-> <<>>, next_id |-> 0, physics_config |-> DefaultConfig]
BlankHandle(status) == [status |-> status, context |-> NULL, predictor_id |-> 0]

\* a thread outside every entry point
IdleThread ==
    [pc |-> "idle", call |-> "none", ptr |-> NULL, tbl |-> NULL, id |-> 0,
     dangling |-> FALSE]

\* ret: no entry point returned in this step; op returned code; an entry
\* point returned at its check for a null pointer
NullArg == "null_argument"
NoReturn == [op |-> "none", code |-> 0, out |-> NoPrediction]
Return(op, code) == [op |-> op, code |-> code, out |-> NoPrediction]

Min(S) == CHOOSE m \in S : \A n \in S : m <= n

\* the addresses the allocator can hand out: the cells that are not in use
FreeContextPtrs == {c \in ContextPtrs : contexts[c].status # "live"}
FreeTablePtrs == {tb \in TablePtrs : ~tables[tb].alive}
FreeHandlePtrs == {h \in HandlePtrs : handles[h].status # "live"}

\* the pointers a caller can pass: NULL and every pointer it was ever given
KnownContextPtrs == {NULL} \cup {c \in ContextPtrs : contexts[c].status # "unalloc"}
KnownHandlePtrs == {NULL} \cup {h \in HandlePtrs : handles[h].status # "unalloc"}

\* PredictorContextInner::new
PredictorContextInnerNew(physics_config) ==
    [predictors |-> <<>>, next_id |-> 0, physics_config |-> physics_config]

\* PredictorContext::new: Arc::new(Mutex::new(PredictorContextInner::new(..)))
PredictorContextNew(physics_config) ==
    LET inner == PredictorContextInnerNew(physics_config) IN
    [alive |-> TRUE, strong |-> 1, locked_by |-> 0, poisoned |-> FALSE,
     predictors |-> inner.predictors, next_id |-> inner.next_id,
     physics_config |-> inner.physics_config]

\* a handle that copies the table's address without counting the reference
ArcCloneUncounted(tbs, tb) == tbs

\* Arc::clone
ArcClone(tbs, tb) == [tbs EXCEPT ![tb].strong = @ + 1]

\* drop of an Arc: the last owner drops the table
ArcDrop(tbs, tb) ==
    IF tbs[tb].strong = 1 THEN [tbs EXCEPT ![tb] = BlankTable]
    ELSE [tbs EXCEPT ![tb].strong = @ - 1]

\* a lock() that never waits
MutexAlwaysFree(tb) == TRUE

\* Mutex::lock by thread t once the mutex is free
MutexFree(tb) == tables[tb].locked_by = 0
Lock(tbs, tb, t) == [tbs EXCEPT ![tb].locked_by = t]

\* a lock() that returns Ok on a poisoned mutex
PoisonIgnored(tb) == FALSE

\* Mutex::lock returns Err(PoisonError) to the holder: a thread panicked
\* while it held the guard
Poisoned(tb) == tables[tb].poisoned

\* drop of a MutexGuard while its thread unwinds from a panic
UnlockPanicking(tbs, tb) == [tbs EXCEPT ![tb].locked_by = 0, ![tb].poisoned = TRUE]

\* a guard whose drop leaves the mutex locked
UnlockForgets(tbs, tb) == tbs

\* drop of a MutexGuard
Unlock(tbs, tb) == [tbs EXCEPT ![tb].locked_by = 0]

\* HashMap::insert, HashMap::remove, HashMap::len
MapInsert(m, k, v) == [i \in DOMAIN m \cup {k} |-> IF i = k THEN v ELSE m[i]]
MapRemove(m, k) == [i \in DOMAIN m \ {k} |-> m[i]]
MapLen(m) == Cardinality(DOMAIN m)

\* a create_predictor whose capacity check is off by one
CreatePredictorOffByOne(inner) ==
    IF MapLen(inner.predictors) >= MaxPredictors - 1
    THEN [id |-> None, inner |-> inner]
    ELSE LET id == inner.next_id
             bumped == [inner EXCEPT !.next_id = (inner.next_id + 1) % IdModulus]
             predictor == GesturePredictorNew(inner.physics_config)
         IN IF predictor # None
            THEN [id |-> Some(id),
                  inner |-> [bumped EXCEPT
                      !.predictors = MapInsert(@, id, predictor[1])]]
            ELSE [id |-> None, inner |-> bumped]

\* PredictorContextInner::create_predictor: the id (or None) and the inner
\* state afterwards
CreatePredictor(inner) ==
    IF MapLen(inner.predictors) >= MaxPredictors
    THEN [id |-> None, inner |-> inner]
    ELSE LET id == inner.next_id
             bumped == [inner EXCEPT !.next_id = (inner.next_id + 1) % IdModulus]
             predictor == GesturePredictorNew(inner.physics_config)
         IN IF predictor # None
            THEN [id |-> Some(id),
                  inner |-> [bumped EXCEPT
                      !.predictors = MapInsert(@, id, predictor[1])]]
            ELSE [id |-> None, inner |-> bumped]

\* PredictorContextInner::get_predictor, get_predictor_mut
GetPredictor(inner, id) ==
    IF id \in DOMAIN inner.predictors THEN Some(inner.predictors[id]) ELSE None

\* PredictorContextInner::remove_predictor
RemovePredictor(inner, id) ==
    [removed |-> id \in DOMAIN inner.predictors,
     inner |-> [inner EXCEPT !.predictors = MapRemove(@, id)]]

\* a call that executes undefined behaviour: the build may return anything
\* or abort, and nothing is known of the memory from here on, so the run
\* ends in a state that keeps only what happened
Undefined(op, kind) ==
    /\ ub' = kind
    /\ \E outcome \in {CRASHED, 0, 1} : ret' = Return(op, outcome)
    /\ contexts' = [c \in ContextPtrs |-> BlankContext("unalloc")]
    /\ tables' = [tb \in TablePtrs |-> BlankTable]
    /\ handles' = [h \in HandlePtrs |-> BlankHandle("unalloc")]
    /\ threads' = [u \in Threads |-> IdleThread]

\* a call that returns without having touched shared state
ReturnOnly(op, code) ==
    /\ ret' = Return(op, code)
    /\ UNCHANGED <<contexts, tables, handles, threads, ub>>

\* threads whose borrowed reference to the box at ptr is left dangling when
\* the box is freed
Invalidate(ths, call, ptr) ==
    [u \in Threads |->
        IF ths[u].pc = "locked" /\ ths[u].call = call /\ ths[u].ptr = ptr
        THEN [ths[u] EXCEPT !.dangling = TRUE]
        ELSE ths[u]]

----------------------------------------------------------------------------
(* ffi.rs: entry points.  An entry point that locks the table is two steps: *)
(* up to the return of lock(), and the critical section with the release    *)
(* and the return.  swipe_predictor_add_point, _get_prediction, _reset and  *)
(* _detect_cancellation share the first step; their arguments are local to  *)
(* the thread and are drawn in the second.                                  *)

HandleOps == {"add_point", "get_prediction", "reset", "detect_cancellation"}

\* inputs of the callers
Configs ==
    {DefaultConfig,
     [deceleration_rate |-> F(-1), min_velocity_threshold |-> F(-1),
      min_gesture_time_ms |-> F(-1)]}
NoSample == [x |-> F(0), y |-> F(0), ts |-> F(0)]
FfiSamples ==
    {[x |-> F(0), y |-> F(0), ts |-> F(0)],
     [x |-> F(20), y |-> F(0), ts |-> F(40)]}

\* Box::into_raw of a new context around a new table
AllocContext(op, physics_config) ==
    /\ FreeContextPtrs # {}
    /\ FreeTablePtrs # {}
    /\ LET c == Min(FreeContextPtrs)
           tb == Min(FreeTablePtrs)
       IN /\ contexts' = [contexts EXCEPT ![c] = [status |-> "live", inner |-> tb]]
          /\ tables' = [tables EXCEPT ![tb] = PredictorContextNew(physics_config)]
          /\ ret' = Return(op, c)
    /\ UNCHANGED <<handles, threads, ub>>

\* swipe_predictor_context_create
ContextCreate(t, physics_config) ==
    /\ ub = "none"
    /\ threads[t].pc = "idle"
    /\ IF ~Validate(physics_config).ok
       THEN ReturnOnly("context_create", NULL)
       ELSE AllocContext("context_create", physics_config)
    /\ UNCHANGED <<gpVars, otherVars>>

\* swipe_predictor_context_create_default
ContextCreateDefault(t) ==
    /\ ub = "none"
    /\ threads[t].pc = "idle"
    /\ AllocContext("context_create_default", DefaultConfig)
    /\ UNCHANGED <<gpVars, otherVars>>

\* a context_destroy that frees the table together with the context
ContextDestroyFreesTable(t, ctx) ==
    /\ ub = "none"
    /\ threads[t].pc = "idle"
    /\ IF ctx = NULL THEN ReturnOnly(NullArg, 0)
       ELSE IF contexts[ctx].status # "live"
       THEN Undefined("context_destroy", "double_free")
       ELSE /\ contexts' = [contexts EXCEPT ![ctx] = BlankContext("freed")]
            /\ tables' = [tables EXCEPT ![contexts[ctx].inner] = BlankTable]
            /\ threads' = Invalidate(threads, "create_in_context", ctx)
            /\ ret' = Return("context_destroy", 0)
            /\ UNCHANGED <<handles, ub>>
    /\ UNCHANGED <<gpVars, otherVars>>

\* swipe_predictor_context_destroy
ContextDestroy(t, ctx) ==
    /\ ub = "none"
    /\ threads[t].pc = "idle"
    /\ IF ctx = NULL THEN ReturnOnly(NullArg, 0)
       ELSE IF contexts[ctx].status # "live"
       THEN Undefined("context_destroy", "double_free")
       ELSE /\ contexts' = [contexts EXCEPT ![ctx] = BlankContext("freed")]
            /\ tables' = ArcDrop(tables, contexts[ctx].inner)
            /\ threads' = Invalidate(threads, "create_in_context", ctx)
            /\ ret' = Return("context_destroy", 0)
            /\ UNCHANGED <<handles, ub>>
    /\ UNCHANGED <<gpVars, otherVars>>

\* the model has a handle address left for a create on table tb (a create
\* on a full table needs none)
HandleLeft(tb) ==
    \/ MapLen(tables[tb].predictors) >= MaxPredictors
    \/ Cardinality(FreeHandlePtrs)
         > Cardinality({u \in Threads : threads[u].call = "create_in_context"})

\* swipe_predictor_create_in_context up to context.inner.lock()
CreateLock(t, ctx) ==
    /\ ub = "none"
    /\ threads[t].pc = "idle"
    /\ IF ctx = NULL THEN ReturnOnly(NullArg, NULL)
       ELSE IF contexts[ctx].status # "live"
       THEN Undefined("create_in_context", "use_after_free")
       ELSE LET tb == contexts[ctx].inner IN
            /\ MutexFree(tb)
            /\ HandleLeft(tb)
            /\ tables' = Lock(tables, tb, t)
            /\ threads' = [threads EXCEPT ![t] =
                   [IdleThread EXCEPT !.pc = "locked", !.call = "create_in_context",
                                      !.ptr = ctx, !.tbl = tb]]
            /\ ret' = NoReturn
            /\ UNCHANGED <<contexts, handles, ub>>
    /\ UNCHANGED <<gpVars, otherVars>>

\* swipe_predictor_create_in_context under the lock: create_predictor, the
\* new handle with its own Arc, the release of the lock
CreateOp(t) ==
    /\ ub = "none"
    /\ threads[t].pc = "locked"
    /\ threads[t].call = "create_in_context"
    /\ IF threads[t].dangling
       THEN Undefined("create_in_context", "use_after_free")
       ELSE IF Poisoned(threads[t].tbl)
       THEN /\ tables' = Unlock(tables, threads[t].tbl)
            /\ threads' = [threads EXCEPT ![t] = IdleThread]
            /\ ret' = Return("create_in_context", NULL)
            /\ UNCHANGED <<contexts, handles, ub>>
       ELSE LET tb == threads[t].tbl
                created == CreatePredictor(tables[tb])
                stored == [tables EXCEPT ![tb] = created.inner]
                h == Min(FreeHandlePtrs)
            IN /\ threads' = [threads EXCEPT ![t] = IdleThread]
               /\ UNCHANGED <<contexts, ub>>
               /\ IF created.id # None
                  THEN /\ handles' = [handles EXCEPT ![h] =
                              [status |-> "live", context |-> tb,
                               predictor_id |-> created.id[1]]]
                       /\ tables' = Unlock(ArcClone(stored, tb), tb)
                       /\ ret' = Return("create_in_context", h)
                  ELSE /\ tables' = Unlock(stored, tb)
                       /\ ret' = Return("create_in_context", NULL)
                       /\ UNCHANGED handles
    /\ UNCHANGED <<gpVars, otherVars>>

\* swipe_predictor_destroy up to context.lock(): the box of the handle is
\* freed, its Arc lives on in the local clone
DestroyEnter(t, handle) ==
    /\ ub = "none"
    /\ threads[t].pc = "idle"
    /\ IF handle = NULL THEN ReturnOnly(NullArg, 0)
       ELSE IF handles[handle].status # "live"
       THEN Undefined("destroy", "double_free")
       ELSE /\ handles' = [handles EXCEPT ![handle] = BlankHandle("freed")]
            /\ threads' = [Invalidate(threads, "handle_op", handle) EXCEPT ![t] =
                   [IdleThread EXCEPT !.pc = "destroy_wait", !.call = "destroy",
                                      !.tbl = handles[handle].context,
                                      !.id = handles[handle].predictor_id]]
            /\ ret' = NoReturn
            /\ UNCHANGED <<contexts, tables, ub>>
    /\ UNCHANGED <<gpVars, otherVars>>

\* swipe_predictor_destroy: context.lock()
DestroyLock(t) ==
    /\ ub = "none"
    /\ threads[t].pc = "destroy_wait"
    /\ MutexFree(threads[t].tbl)
    /\ tables' = Lock(tables, threads[t].tbl, t)
    /\ threads' = [threads EXCEPT ![t].pc = "locked"]
    /\ ret' = NoReturn
    /\ UNCHANGED <<contexts, handles, ub>>
    /\ UNCHANGED <<gpVars, otherVars>>

\* swipe_predictor_destroy under the lock: remove_predictor unless lock()
\* returned Err, the release of the lock, the drop of the local clone
DestroyOp(t) ==
    /\ ub = "none"
    /\ threads[t].pc = "locked"
    /\ threads[t].call = "destroy"
    /\ LET tb == threads[t].tbl
           removed == RemovePredictor(tables[tb], threads[t].id)
       IN tables' = IF Poisoned(tb)
                    THEN ArcDrop(Unlock(tables, tb), tb)
                    ELSE ArcDrop(Unlock([tables EXCEPT ![tb] = removed.inner], tb), tb)
    /\ threads' = [threads EXCEPT ![t] = IdleThread]
    /\ ret' = Return("destroy", 0)
    /\ UNCHANGED <<contexts, handles, ub>>
    /\ UNCHANGED <<gpVars, otherVars>>

\* swipe_predictor_get_prediction called with a null out_x, out_y or
\* out_confidence: it returns before it reads the handle, whatever the handle
GetPredictionNullOut(t, handle) ==
    /\ ub = "none"
    /\ threads[t].pc = "idle"
    /\ ReturnOnly(NullArg, 0)
    /\ UNCHANGED <<gpVars, otherVars>>

\* entry points that read through the handle without the null test
HandleLockNoNullCheck(t, handle) ==
    /\ ub = "none"
    /\ threads[t].pc = "idle"
    /\ IF handle = NULL \/ handles[handle].status # "live"
       THEN Undefined("handle_op", "use_after_free")
       ELSE LET tb == handles[handle].context IN
            /\ MutexFree(tb)
            /\ tables' = Lock(tables, tb, t)
            /\ threads' = [threads EXCEPT ![t] =
                   [IdleThread EXCEPT !.pc = "locked", !.call = "handle_op",
                                      !.ptr = handle, !.tbl = tb]]
            /\ ret' = NoReturn
            /\ UNCHANGED <<contexts, handles, ub>>
    /\ UNCHANGED <<gpVars, otherVars>>

\* swipe_predictor_add_point, _get_prediction, _reset, _detect_cancellation
\* up to handle.context.lock()
HandleLock(t, handle) ==
    /\ ub = "none"
    /\ threads[t].pc = "idle"
    /\ IF handle = NULL THEN ReturnOnly(NullArg, 0)
       ELSE IF handles[handle].status # "live"
       THEN Undefined("handle_op", "use_after_free")
       ELSE LET tb == handles[handle].context IN
            /\ MutexFree(tb)
            /\ tables' = Lock(tables, tb, t)
            /\ threads' = [threads EXCEPT ![t] =
                   [IdleThread EXCEPT !.pc = "locked", !.call = "handle_op",
                                      !.ptr = handle, !.tbl = tb]]
            /\ ret' = NoReturn
            /\ UNCHANGED <<contexts, handles, ub>>
    /\ UNCHANGED <<gpVars, otherVars>>

\* a get_prediction that consumes the samples it predicted from
HandleResultPredictDrains(op, found, s) ==
    IF found = None THEN [code |-> 0, out |-> NoPrediction, pred |-> None]
    ELSE LET predictor == found[1] IN
    CASE op = "add_point" ->
           LET r == AddTouchPoint(predictor, s.x, s.y, s.ts)
           IN [code |-> IF r.res = "Ok" THEN 1 ELSE 0, out |-> NoPrediction,
               pred |-> Some(r.pred)]
      [] op = "get_prediction" ->
           LET r == Predict(predictor)
           IN IF r.kind = "Ok"
              THEN [code |-> 1, out |-> r, pred |-> Some(Reset(predictor))]
              ELSE [code |-> 0, out |-> NoPrediction, pred |-> found]
      [] op = "reset" ->
           [code |-> 1, out |-> NoPrediction, pred |-> Some(Reset(predictor))]
      [] op = "detect_cancellation" ->
           [code |-> IF DetectCancellation(predictor) THEN 1 ELSE 0,
            out |-> NoPrediction, pred |-> found]

\* an add_point that reports success whatever add_touch_point returned
HandleResultAddAlwaysOne(op, found, s) ==
    IF found = None THEN [code |-> 0, out |-> NoPrediction, pred |-> None]
    ELSE LET predictor == found[1] IN
    CASE op = "add_point" ->
           LET r == AddTouchPoint(predictor, s.x, s.y, s.ts)
           IN [code |-> 1, out |-> NoPrediction, pred |-> Some(r.pred)]
      [] op = "get_prediction" ->
           LET r == Predict(predictor)
           IN IF r.kind = "Ok" THEN [code |-> 1, out |-> r, pred |-> found]
              ELSE [code |-> 0, out |-> NoPrediction, pred |-> found]
      [] op = "reset" ->
           [code |-> 1, out |-> NoPrediction, pred |-> Some(Reset(predictor))]
      [] op = "detect_cancellation" ->
           [code |-> IF DetectCancellation(predictor) THEN 1 ELSE 0,
            out |-> NoPrediction, pred |-> found]

\* entry points that report success when the id is not in the table
HandleResultAbsentSucceeds(op, found, s) ==
    IF found = None THEN [code |-> 1, out |-> NoPrediction, pred |-> None]
    ELSE LET predictor == found[1] IN
    CASE op = "add_point" ->
           LET r == AddTouchPoint(predictor, s.x, s.y, s.ts)
           IN [code |-> IF r.res = "Ok" THEN 1 ELSE 0, out |-> NoPrediction,
               pred |-> Some(r.pred)]
      [] op = "get_prediction" ->
           LET r == Predict(predictor)
           IN IF r.kind = "Ok" THEN [code |-> 1, out |-> r, pred |-> found]
              ELSE [code |-> 0, out |-> NoPrediction, pred |-> found]
      [] op = "reset" ->
           [code |-> 1, out |-> NoPrediction, pred |-> Some(Reset(predictor))]
      [] op = "detect_cancellation" ->
           [code |-> IF DetectCancellation(predictor) THEN 1 ELSE 0,
            out |-> NoPrediction, pred |-> found]

\* the match on get_predictor(_mut) of the four entry points: the value
\* returned, the prediction written through the out pointers, the predictor
\* stored afterwards
HandleResult(op, found, s) ==
    IF found = None THEN [code |-> 0, out |-> NoPrediction, pred |-> None]
    ELSE LET predictor == found[1] IN
    CASE op = "add_point" ->
           LET r == AddTouchPoint(predictor, s.x, s.y, s.ts)
           IN [code |-> IF r.res = "Ok" THEN 1 ELSE 0, out |-> NoPrediction,
               pred |-> Some(r.pred)]
      [] op = "get_prediction" ->
           LET r == Predict(predictor)
           IN IF r.kind = "Ok" THEN [code |-> 1, out |-> r, pred |-> found]
              ELSE [code |-> 0, out |-> NoPrediction, pred |-> found]
      [] op = "reset" ->
           [code |-> 1, out |-> NoPrediction, pred |-> Some(Reset(predictor))]
      [] op = "detect_cancellation" ->
           [code |-> IF DetectCancellation(predictor) THEN 1 ELSE 0,
            out |-> NoPrediction, pred |-> found]

\* a store that writes the predictor under every id of the table
StorePredictorEverywhere(m, id, predictor) == [i \in DOMAIN m |-> predictor]

\* the write through the &mut GesturePredictor of get_predictor_mut
StorePredictor(m, id, predictor) == [m EXCEPT ![id] = predictor]

\* the gesture the callers of Spec feed a predictor: a first sample, later
\* ones until MaxPoints are buffered, and then a sample that is out of order
NextSample(n) ==
    IF n = 0 \/ n >= MaxPoints THEN [x |-> F(0), y |-> F(0), ts |-> F(0)]
    ELSE [x |-> F(20), y |-> F(0), ts |-> F(40)]
MayAdd(op, found, s) ==
    s = IF op = "add_point"
        THEN NextSample(IF found = None THEN 0 ELSE Len(found[1].touch_buffer))
        ELSE NoSample

\* the four entry points under the lock, with the release of the lock
HandleOp(t, op, s) ==
    /\ ub = "none"
    /\ threads[t].pc = "locked"
    /\ threads[t].call = "handle_op"
    /\ IF threads[t].dangling
       THEN Undefined(op, "use_after_free")
       ELSE IF Poisoned(threads[t].tbl)
       THEN /\ s = NoSample
            /\ tables' = Unlock(tables, threads[t].tbl)
            /\ threads' = [threads EXCEPT ![t] = IdleThread]
            /\ ret' = Return(op, 0)
            /\ UNCHANGED <<contexts, handles, ub>>
       ELSE \E tb \in {threads[t].tbl}, id \in {handles[threads[t].ptr].predictor_id} :
            \E found \in {GetPredictor(tables[tb], id)} :
            /\ MayAdd(op, found, s)
            /\ \E r \in {HandleResult(op, found, s)} :
                   /\ tables' = Unlock(
                           IF r.pred = None THEN tables
                           ELSE [tables EXCEPT ![tb].predictors =
                                    StorePredictor(@, id, r.pred[1])], tb)
                   /\ ret' = [op |-> op, code |-> r.code, out |-> r.out]
            /\ threads' = [threads EXCEPT ![t] = IdleThread]
            /\ UNCHANGED <<contexts, handles, ub>>
    /\ UNCHANGED <<gpVars, otherVars>>

----------------------------------------------------------------------------
(* SpecFault: a fault inside an entry point.  The code has no panic site    *)
(* left in its entry points; SpecFault raises one from outside, inside the  *)
(* closure of catch_unwind of a thread that holds the guard, before the     *)
(* closure has written to the table.                                        *)

\* a panic that leaks the guard: the mutex stays locked
PanicHoldsLock(t) ==
    /\ ub = "none"
    /\ threads[t].pc = "locked"
    /\ threads[t].call \in {"create_in_context", "handle_op"}
    /\ ~threads[t].dangling
    /\ ~Poisoned(threads[t].tbl)
    /\ tables' = [tables EXCEPT ![threads[t].tbl].poisoned = TRUE]
    /\ threads' = [threads EXCEPT ![t] = IdleThread]
    /\ \E op \in (IF threads[t].call = "handle_op" THEN HandleOps
                   ELSE {"create_in_context"}) : ret' = Return(op, 0)
    /\ UNCHANGED <<contexts, handles, ub>>
    /\ UNCHANGED <<gpVars, otherVars>>

\* a panic in the critical section of swipe_predictor_create_in_context,
\* _add_point, _get_prediction, _reset or _detect_cancellation: the guard is
\* dropped by the unwinding, catch_unwind returns Err and unwrap_or gives
\* null or 0
Panic(t) ==
    /\ ub = "none"
    /\ threads[t].pc = "locked"
    /\ threads[t].call \in {"create_in_context", "handle_op"}
    /\ ~threads[t].dangling
    /\ ~Poisoned(threads[t].tbl)
    /\ tables' = UnlockPanicking(tables, threads[t].tbl)
    /\ threads' = [threads EXCEPT ![t] = IdleThread]
    /\ \E op \in (IF threads[t].call = "handle_op" THEN HandleOps
                   ELSE {"create_in_context"}) : ret' = Return(op, 0)
    /\ UNCHANGED <<contexts, handles, ub>>
    /\ UNCHANGED <<gpVars, otherVars>>

----------------------------------------------------------------------------
(* SpecPredictor: one GesturePredictor *)

NoCall == [op |-> "none", x |-> F(0), y |-> F(0), ts |-> F(0), res |-> "none",
           out |-> NoPrediction]

\* buffer sizes asked of with_buffer_size, and the samples fed
RequestedSizes == {0, 3}
GpXs == {F(0), F(20)}
GpTimestamps == {F(0), F(20), F(40), F(-10), NaN, PosInf}

GpAdd(x, y, ts) ==
    /\ Len(accepted) < MaxAccepted
    /\ LET r == AddTouchPoint(gp, x, y, ts) IN
       /\ gp' = r.pred
       /\ accepted' = IF r.res = "Ok"
                      THEN Append(accepted, [x |-> x, y |-> y, t |-> ts.v])
                      ELSE accepted
       /\ gpRet' = [NoCall EXCEPT !.op = "add_touch_point", !.x = x, !.y = y,
                                  !.ts = ts, !.res = r.res]
    /\ UNCHANGED <<ffiVars, otherVars>>

GpReset ==
    /\ gp' = Reset(gp)
    /\ accepted' = <<>>
    /\ gpRet' = [NoCall EXCEPT !.op = "reset", !.res = "Ok"]
    /\ UNCHANGED <<ffiVars, otherVars>>

GpPredict ==
    /\ gpRet' = [NoCall EXCEPT !.op = "predict", !.res = Predict(gp).kind,
                               !.out = Predict(gp)]
    /\ UNCHANGED <<gp, accepted>>
    /\ UNCHANGED <<ffiVars, otherVars>>

GpDetectCancellation ==
    /\ gpRet' = [NoCall EXCEPT !.op = "detect_cancellation",
                               !.res = IF DetectCancellation(gp) THEN "true" ELSE "false"]
    /\ UNCHANGED <<gp, accepted>>
    /\ UNCHANGED <<ffiVars, otherVars>>

----------------------------------------------------------------------------
(* SpecPhysics: calculate_stopping_distance on its own *)

NoStop == [op |-> "none", config |-> DefaultConfig, vx |-> 0, vy |-> 0,
           out |-> [ok |-> FALSE, x |-> RInt(0), y |-> RInt(0), t |-> RInt(0)]]

\* configurations and velocities (pixels per second) it is called with
PhysConfigs ==
    [deceleration_rate : {F(500), F(1000), F(1500), F(3000)},
     min_velocity_threshold : {F(0), F(50)},
     min_gesture_time_ms : {F(30)}]
PhysVelocities == {-1000, 0, 10, 50, 100, 500, 1000, 1500}

StoppingDistance(c, vx, vy) ==
    /\ physRet' = [op |-> "calculate_stopping_distance", config |-> c,
                   vx |-> vx, vy |-> vy,
                   out |-> CalculateStoppingDistance(c, RInt(vx), RInt(vy))]
    /\ UNCHANGED <<ffiVars, gpVars, bridge, manager, locks, legacyRet>>

----------------------------------------------------------------------------
(* SpecNumeric: a GesturePredictor under several valid configurations, fed  *)
(* coordinates that need not be numbers (TouchPoint::new checks only the    *)
(* timestamp)                                                               *)

NumConfigs ==
    {DefaultConfig,
     [deceleration_rate |-> F(1000), min_velocity_threshold |-> F(50),
      min_gesture_time_ms |-> F(0)],
     [deceleration_rate |-> F(1000), min_velocity_threshold |-> F(0),
      min_gesture_time_ms |-> F(0)]}
NumXs == {F(0), F(20), NaN, PosInf}

----------------------------------------------------------------------------
(* SpecBridge: ios_bridge.rs (android.rs keeps the same map and counter).   *)
(* Every entry point runs under the storage mutex, so it is one step.  The  *)
(* context is the table behind the context pointer; handles maps the i32    *)
(* ids to handle pointers, heap holds the Box<PredictorHandle> behind each  *)
(* pointer; stale keeps the tracked ids that were in the map when a         *)
(* re-initialization or a cleanup emptied it.                               *)

NoLegacyReturn == [op |-> "none", config |-> DefaultConfig, code |-> 0, created |-> FALSE]

\* HandleStorage::new
BridgePtrs == 1..MaxBridgeHandles
\* the ids whose history the model keeps in stale: the first id of an epoch
TrackedIds == {1}
HandleStorageNew ==
    [context |-> None, handles |-> <<>>, next_id |-> 1,
     heap |-> [p \in BridgePtrs |-> [status |-> "free", predictor_id |-> 0]],
     stale |-> {}]

\* swipe_predictor_destroy of every handle in the map (handles.drain()) and
\* swipe_predictor_context_destroy
BridgeDrain(b) ==
    [b EXCEPT !.context = None,
              !.handles = <<>>,
              !.heap = [p \in BridgePtrs |->
                           IF \E id \in DOMAIN b.handles : b.handles[id] = p
                           THEN [status |-> "free", predictor_id |-> 0]
                           ELSE b.heap[p]],
              !.stale = @ \cup (DOMAIN b.handles \cap TrackedIds)]

\* i32::wrapping_add(1)
WrappingAdd(n) == IF n = MaxBridgeId THEN -MaxBridgeId - 1 ELSE n + 1

\* init_predictor_manager of the bridge
BridgeInitManager(c) ==
    LET drained == IF bridge.context # None THEN BridgeDrain(bridge) ELSE bridge
        new_ctx == IF Validate(c).ok THEN Some(PredictorContextInnerNew(c)) ELSE None
    IN /\ bridge' = IF new_ctx # None
                     THEN [drained EXCEPT !.context = new_ctx, !.next_id = 1]
                     ELSE drained
       /\ legacyRet' = [NoLegacyReturn EXCEPT !.op = "init_predictor_manager",
                                              !.config = c]
       /\ UNCHANGED <<ffiVars, gpVars, physRet, manager, locks>>

\* init_predictor of the bridge
BridgeInitPredictor ==
    /\ IF bridge.context = None
       THEN /\ legacyRet' = [NoLegacyReturn EXCEPT !.op = "init_predictor", !.code = -1]
            /\ UNCHANGED bridge
       ELSE LET r == CreatePredictor(bridge.context[1])
                id == bridge.next_id
                free == {p \in BridgePtrs : bridge.heap[p].status = "free"}
            IN IF r.id = None
               THEN /\ legacyRet' = [NoLegacyReturn EXCEPT !.op = "init_predictor",
                                                           !.code = -1]
                    /\ bridge' = [bridge EXCEPT !.context = Some(r.inner)]
               ELSE /\ free # {}
                    /\ legacyRet' = [NoLegacyReturn EXCEPT !.op = "init_predictor",
                                                           !.code = id,
                                                           !.created = TRUE]
                    /\ bridge' = [bridge EXCEPT
                           !.context = Some(r.inner),
                           !.handles = MapInsert(@, id, Min(free)),
                           !.heap[Min(free)] = [status |-> "live",
                                                predictor_id |-> r.id[1]],
                           !.next_id = WrappingAdd(id)]
    /\ UNCHANGED <<ffiVars, gpVars, physRet, manager, locks>>

\* remove_predictor of the bridge
BridgeRemovePredictor(predictor_id) ==
    /\ IF predictor_id \in DOMAIN bridge.handles
       THEN LET handle_ptr == bridge.handles[predictor_id] IN
            /\ bridge' = [bridge EXCEPT
                   !.handles = MapRemove(@, predictor_id),
                   !.heap[handle_ptr] = [status |-> "free", predictor_id |-> 0],
                   !.context = Some(RemovePredictor(bridge.context[1],
                                        bridge.heap[handle_ptr].predictor_id).inner)]
            /\ legacyRet' = [NoLegacyReturn EXCEPT !.op = "remove_predictor", !.code = 1]
       ELSE /\ legacyRet' = [NoLegacyReturn EXCEPT !.op = "remove_predictor", !.code = 0]
            /\ UNCHANGED bridge
    /\ UNCHANGED <<ffiVars, gpVars, physRet, manager, locks>>

\* add_touch_point, get_prediction, reset_predictor, detect_cancellation of
\* the bridge: the entry point of ffi.rs on the handle under the id, 0 when
\* the id is not in the map
BridgeHandleOp(op, predictor_id, s) ==
    /\ IF predictor_id \in DOMAIN bridge.handles
       THEN \E inner \in {bridge.context[1]},
               id \in {bridge.heap[bridge.handles[predictor_id]].predictor_id} :
            \E r \in {HandleResult(op, GetPredictor(inner, id), s)} :
               /\ bridge' = IF r.pred = None THEN bridge
                            ELSE [bridge EXCEPT !.context = Some(
                                     [inner EXCEPT !.predictors =
                                         StorePredictor(@, id, r.pred[1])])]
               /\ legacyRet' = [NoLegacyReturn EXCEPT !.op = op, !.code = r.code]
       ELSE /\ legacyRet' = [NoLegacyReturn EXCEPT !.op = op, !.code = 0]
            /\ UNCHANGED bridge
    /\ UNCHANGED <<ffiVars, gpVars, physRet, manager, locks>>

\* cleanup_ios_bridge (nativeShutdown of android.rs also resets next_id)
BridgeCleanup ==
    /\ bridge' = BridgeDrain(bridge)
    /\ legacyRet' = [NoLegacyReturn EXCEPT !.op = "cleanup_ios_bridge"]
    /\ UNCHANGED <<ffiVars, gpVars, physRet, manager, locks>>

----------------------------------------------------------------------------
(* SpecLocks: the mutexes the entry points of ios_bridge.rs (android.rs     *)
(* alike) take.  An entry point locks the storage, makes its calls into     *)
(* ffi.rs, each of which locks and unlocks the table of the context, and    *)
(* returns, which drops the guard of the storage.                           *)

\* nobody holds a mutex, every caller is outside the bridge
NoLocks ==
    [storage |-> 0, table |-> 0,
     pc |-> [t \in Threads |-> "idle"],
     op |-> [t \in Threads |-> "none"],
     left |-> [t \in Threads |-> 0]]

BridgeOps ==
    {"init_predictor_manager", "init_predictor", "add_touch_point", "get_prediction",
     "reset_predictor", "detect_cancellation", "remove_predictor", "cleanup_ios_bridge"}

\* the calls into ffi.rs that lock the table which an entry point can make:
\* one swipe_predictor_destroy per handle in the map for a
\* re-initialization or a cleanup, otherwise one call, or none when the id
\* or the context is missing
FfiCalls(op) ==
    IF op \in {"init_predictor_manager", "cleanup_ios_bridge"}
    THEN 0..MaxPredictors ELSE {0, 1}

\* thread t calls the entry point op
BridgeCall(t, op, n) ==
    /\ locks.pc[t] = "idle"
    /\ locks' = [locks EXCEPT !.pc[t] = "called", !.op[t] = op, !.left[t] = n]
    /\ UNCHANGED <<ffiVars, gpVars, physRet, bridge, manager, legacyRet>>

\* an entry point that locks the table before the storage
BridgeLockTableFirst(t) ==
    /\ locks.pc[t] = "called"
    /\ locks.table = 0
    /\ locks' = [locks EXCEPT !.table = t, !.pc[t] = "table",
                              !.left[t] = IF @ = 0 THEN 1 ELSE @]
    /\ UNCHANGED <<ffiVars, gpVars, physRet, bridge, manager, legacyRet>>

\* get_storage().lock()
BridgeLockStorage(t) ==
    /\ locks.pc[t] = "called"
    /\ locks.storage = 0
    /\ locks' = [locks EXCEPT !.storage = t, !.pc[t] = "storage"]
    /\ UNCHANGED <<ffiVars, gpVars, physRet, bridge, manager, legacyRet>>

\* context.inner.lock() / handle.context.lock() of the entry point of
\* ffi.rs called under the storage mutex
BridgeFfiLock(t) ==
    /\ locks.pc[t] = "storage"
    /\ locks.left[t] > 0
    /\ locks.table = 0
    /\ locks' = [locks EXCEPT !.table = t, !.pc[t] = "table"]
    /\ UNCHANGED <<ffiVars, gpVars, physRet, bridge, manager, legacyRet>>

\* the return of that entry point of ffi.rs: its guard is dropped
BridgeFfiUnlock(t) ==
    /\ locks.pc[t] = "table"
    /\ locks' = [locks EXCEPT !.table = 0, !.pc[t] = "storage", !.left[t] = @ - 1]
    /\ UNCHANGED <<ffiVars, gpVars, physRet, bridge, manager, legacyRet>>

\* the return of the entry point of the bridge: the guard of the storage is
\* dropped
BridgeReturn(t) ==
    /\ locks.pc[t] = "storage"
    /\ locks.left[t] = 0
    /\ locks' = [locks EXCEPT !.storage = 0, !.pc[t] = "idle", !.op[t] = "none"]
    /\ UNCHANGED <<ffiVars, gpVars, physRet, bridge, manager, legacyRet>>

----------------------------------------------------------------------------
(* SpecManager: the global PredictorManager of lib.rs *)

\* PhysicsConfig::validate of lib.rs
LibValidate(c) ==
    /\ ~FLe(c.deceleration_rate, F(0))
    /\ ~FLt(c.min_velocity_threshold, F(0))
    /\ ~FLt(c.min_gesture_time_ms, F(0))

\* PredictorManager::new
PredictorManagerNew(physics_config) ==
    [predictors |-> <<>>, physics_config |-> physics_config, next_id |-> 0]

\* init_predictor_manager of lib.rs
ManagerInit(c) ==
    /\ IF ~LibValidate(c)
       THEN /\ legacyRet' = [NoLegacyReturn EXCEPT !.op = "init_predictor_manager",
                                                   !.config = c]
            /\ UNCHANGED manager
       ELSE IF manager # None
       THEN /\ legacyRet' = [NoLegacyReturn EXCEPT !.op = "init_predictor_manager",
                                                   !.config = c]
            /\ UNCHANGED manager
       ELSE /\ manager' = Some(PredictorManagerNew(c))
            /\ legacyRet' = [NoLegacyReturn EXCEPT !.op = "init_predictor_manager",
                                                   !.config = c, !.code = 1]
    /\ UNCHANGED <<ffiVars, gpVars, physRet, bridge, locks>>

\* init_predictor of lib.rs, with PredictorManager::create_predictor
ManagerInitPredictor ==
    /\ IF manager = None
       THEN /\ legacyRet' = [NoLegacyReturn EXCEPT !.op = "init_predictor", !.code = -1]
            /\ UNCHANGED manager
       ELSE LET mgr == manager[1]
                id == mgr.next_id
                predictor == [touch_buffer |-> <<>>,
                              buffer_size |-> Clamp(10, MIN_BUFFER_SIZE, MAX_BUFFER_SIZE),
                              physics_config |-> mgr.physics_config,
                              gesture_start_time |-> None,
                              last_prediction |-> None]
            IN IF MapLen(mgr.predictors) >= MaxPredictors
               THEN /\ legacyRet' = [NoLegacyReturn EXCEPT !.op = "init_predictor",
                                                           !.code = -1]
                    /\ UNCHANGED manager
               ELSE /\ manager' = Some([mgr EXCEPT
                            !.next_id = id + 1,
                            !.predictors = MapInsert(@, id, predictor)])
                    /\ legacyRet' = [NoLegacyReturn EXCEPT !.op = "init_predictor",
                                                           !.code = id,
                                                           !.created = TRUE]
    /\ UNCHANGED <<ffiVars, gpVars, physRet, bridge, locks>>

----------------------------------------------------------------------------
(* Specifications *)

FfiInit ==
    /\ contexts = [c \in ContextPtrs |-> BlankContext("unalloc")]
    /\ tables = [tb \in TablePtrs |-> BlankTable]
    /\ handles = [h \in HandlePtrs |-> BlankHandle("unalloc")]
    /\ threads = [t \in Threads |-> IdleThread]
    /\ ret = NoReturn
    /\ ub = "none"

GpIdle ==
    /\ gp = NewUnchecked(DefaultConfig)
    /\ accepted = <<>>
    /\ gpRet = NoCall

OtherIdle ==
    /\ physRet = NoStop
    /\ bridge = HandleStorageNew
    /\ manager = None
    /\ locks = NoLocks
    /\ legacyRet = NoLegacyReturn

Init == FfiInit /\ GpIdle /\ OtherIdle

Next ==
    \/ \E t \in Threads, c \in Configs : ContextCreate(t, c)
    \/ \E t \in Threads : ContextCreateDefault(t)
    \/ \E t \in Threads, ctx \in KnownContextPtrs : ContextDestroy(t, ctx)
    \/ \E t \in Threads, ctx \in KnownContextPtrs : CreateLock(t, ctx)
    \/ \E t \in Threads : CreateOp(t)
    \/ \E t \in Threads, h \in KnownHandlePtrs : DestroyEnter(t, h)
    \/ \E t \in Threads : DestroyLock(t)
    \/ \E t \in Threads : DestroyOp(t)
    \/ \E t \in Threads, h \in KnownHandlePtrs : HandleLock(t, h)
    \/ \E t \in Threads, h \in KnownHandlePtrs : GetPredictionNullOut(t, h)
    \/ \E t \in Threads, op \in HandleOps, s \in FfiSamples : HandleOp(t, op, s)

Spec == Init /\ [][Next]_vars

NextFault ==
    \/ Next
    \/ \E t \in Threads : Panic(t)

SpecFault == Init /\ [][NextFault]_vars

\* SpecConfig: registries created from every combination of these values
\* of the three parameters, and predictors created in them
ConfigValues == {F(0), F(50), F(-1), NaN, PosInf, NegInf}
AllConfigs ==
    [deceleration_rate : ConfigValues,
     min_velocity_threshold : ConfigValues,
     min_gesture_time_ms : ConfigValues]

NextConfig ==
    \/ \E t \in Threads, c \in AllConfigs : ContextCreate(t, c)
    \/ \E t \in Threads, ctx \in KnownContextPtrs : ContextDestroy(t, ctx)
    \/ \E t \in Threads, ctx \in KnownContextPtrs : CreateLock(t, ctx)
    \/ \E t \in Threads : CreateOp(t)

SpecConfig == Init /\ [][NextConfig]_vars

InitPredictor ==
    /\ FfiInit
    /\ \E size \in RequestedSizes : gp = WithBufferSizeUnchecked(DefaultConfig, size)
    /\ accepted = <<>>
    /\ gpRet = NoCall
    /\ OtherIdle

NextPredictor ==
    \/ \E x \in GpXs, ts \in GpTimestamps : GpAdd(x, F(0), ts)
    \/ GpReset
    \/ GpPredict
    \/ GpDetectCancellation

SpecPredictor == InitPredictor /\ [][NextPredictor]_vars

NextPhysics ==
    \E c \in PhysConfigs, vx \in PhysVelocities, vy \in {0, 500} :
        StoppingDistance(c, vx, vy)

SpecPhysics == Init /\ [][NextPhysics]_vars

\* SpecDecel: a GesturePredictor fed gestures that slow down, under a
\* default, a high-threshold and a zero-threshold configuration
InitDecel ==
    /\ FfiInit
    /\ \E c \in {DefaultConfig,
                  [deceleration_rate |-> F(1000), min_velocity_threshold |-> F(250),
                   min_gesture_time_ms |-> F(0)],
                  [deceleration_rate |-> F(1000), min_velocity_threshold |-> F(0),
                   min_gesture_time_ms |-> F(0)]} : gp = NewUnchecked(c)
    /\ accepted = <<>>
    /\ gpRet = NoCall
    /\ OtherIdle

NextDecel ==
    \/ /\ Len(accepted) < MaxNumPoints
       /\ \E x \in {F(0), F(20), F(30)}, ts \in {F(0), F(20), F(40), F(60)} :
              GpAdd(x, F(0), ts)
    \/ GpPredict
    \/ GpDetectCancellation

SpecDecel == InitDecel /\ [][NextDecel]_vars

InitNumeric ==
    /\ FfiInit
    /\ \E c \in NumConfigs : gp = NewUnchecked(c)
    /\ accepted = <<>>
    /\ gpRet = NoCall
    /\ OtherIdle

NextNumeric ==
    \/ /\ Len(accepted) < MaxNumPoints
       /\ \E x \in NumXs, ts \in {F(0), F(20), F(40)} : GpAdd(x, F(0), ts)
    \/ GpPredict

SpecNumeric == InitNumeric /\ [][NextNumeric]_vars

NextBridge ==
    \/ \E c \in {DefaultConfig, [DefaultConfig EXCEPT !.deceleration_rate = F(0)]} :
           BridgeInitManager(c)
    \/ BridgeInitPredictor
    \/ \E id \in (-MaxBridgeId - 1)..MaxBridgeId : BridgeRemovePredictor(id)
    \/ \E id \in (-MaxBridgeId - 1)..MaxBridgeId, op \in {"reset", "get_prediction"} :
           BridgeHandleOp(op, id, NoSample)
    \/ BridgeCleanup

SpecBridge == Init /\ [][NextBridge]_vars

NextLocks ==
    \/ \E t \in Threads, op \in BridgeOps : \E n \in FfiCalls(op) : BridgeCall(t, op, n)
    \/ \E t \in Threads : BridgeLockStorage(t)
    \/ \E t \in Threads : BridgeFfiLock(t)
    \/ \E t \in Threads : BridgeFfiUnlock(t)
    \/ \E t \in Threads : BridgeReturn(t)

\* a caller may stay outside for ever; a thread inside an entry point runs
\* on, and a thread that waits for a mutex which is free again and again
\* gets it in the end
SpecLocks ==
    /\ Init
    /\ [][NextLocks]_vars
    /\ \A t \in Threads :
           /\ SF_vars(BridgeLockStorage(t))
           /\ SF_vars(BridgeFfiLock(t))
           /\ WF_vars(BridgeFfiUnlock(t))
           /\ WF_vars(BridgeReturn(t))

NextManager ==
    \/ \E c \in [deceleration_rate : ConfigValues,
                  min_velocity_threshold : {F(50), F(-1), NaN},
                  min_gesture_time_ms : {F(0), PosInf}] : ManagerInit(c)
    \/ ManagerInitPredictor

SpecManager == Init /\ [][NextManager]_vars

----------------------------------------------------------------------------
(* Steps of Spec, for the properties below.  Once a call has dereferenced   *)
(* or freed a destroyed pointer (ub # "none") the memory of the process is  *)
(* not described any more: Undefined blanks it, and the properties of the   *)
(* registry below speak about the runs up to that point.                    *)

Ids == 0..(IdModulus - 1)

LiveHandles == {h \in HandlePtrs : handles[h].status = "live"}
LiveContexts == {c \in ContextPtrs : contexts[c].status = "live"}

\* thread t executes its critical section in this step and returns
OpStep(t, call) ==
    /\ threads[t].pc = "locked"
    /\ threads[t].call = call
    /\ threads'[t].pc = "idle"
    /\ ub' = "none"

\* swipe_predictor_context_destroy frees the live context ctx in this step
ContextDestroyStep(ctx) ==
    /\ contexts[ctx].status = "live"
    /\ contexts'[ctx].status = "freed"
    /\ ub' = "none"

\* the predictor id a thread in its critical section operates on
TargetId(t) ==
    CASE threads[t].call = "handle_op" -> handles[threads[t].ptr].predictor_id
      [] threads[t].call = "destroy" -> threads[t].id
      [] OTHER -> tables[threads[t].tbl].next_id

\* the registry that issued handle h has been destroyed
Orphaned(h) == \A c \in LiveContexts : contexts[c].inner # handles[h].context

----------------------------------------------------------------------------
(* C1: after swipe_predictor_context_destroy every handle created from the  *)
(* context and not yet destroyed still works.  A live handle always points  *)
(* to a live table; destroying a context changes nothing of the tables that *)
(* handles still refer to, but the reference count of the context's own     *)
(* table; and a call through a handle whose context is gone returns, and    *)
(* stores, what the predictor under the handle's id alone determines.       *)
C1_HandlesOutliveContext ==
    [][/\ \A h \in HandlePtrs :
              handles'[h].status = "live" => tables'[handles'[h].context].alive
       /\ \A ctx \in ContextPtrs :
              ContextDestroyStep(ctx) =>
                  /\ handles' = handles
                  /\ \A h \in LiveHandles :
                         LET tb == handles[h].context IN
                         tables'[tb] =
                             IF tb = contexts[ctx].inner
                             THEN [tables[tb] EXCEPT !.strong = @ - 1]
                             ELSE tables[tb]
       /\ \A t \in Threads :
              (OpStep(t, "handle_op") /\ Orphaned(threads[t].ptr)) =>
                  LET tb == threads[t].tbl
                      id == handles[threads[t].ptr].predictor_id
                      found == GetPredictor(tables[tb], id)
                  IN \E s \in FfiSamples \cup {NoSample} :
                         LET r == HandleResult(ret'.op, found, s) IN
                         /\ ret'.op \in HandleOps
                         /\ ret'.code = r.code
                         /\ ret'.out = r.out
                         /\ GetPredictor(tables'[tb], id) = r.pred
      ]_vars

\* a prediction has just been returned through a handle whose context was
\* destroyed before
C1_Witness ==
    /\ ret.op = "get_prediction"
    /\ ret.code = 1
    /\ ret.out.kind = "Ok"
    /\ LiveContexts = {}
    /\ \E c \in ContextPtrs : contexts[c].status = "freed"
    /\ LiveHandles # {}

----------------------------------------------------------------------------
(* C2: a table is alive if and only if something refers to it, and its      *)
(* reference count is the number of its referrers: the context while it is  *)
(* not destroyed, every live handle, and every handle whose                 *)
(* swipe_predictor_destroy has not returned yet.  Hence the table is freed  *)
(* exactly when the last of them is released, in any order.                 *)
Referrers(tb) ==
    Cardinality({c \in LiveContexts : contexts[c].inner = tb})
    + Cardinality({h \in LiveHandles : handles[h].context = tb})
    + Cardinality({t \in Threads : threads[t].call = "destroy" /\ threads[t].tbl = tb})

C2_TableAliveIffReferenced ==
    ub = "none" =>
        \A tb \in TablePtrs :
            /\ tables[tb].alive <=> Referrers(tb) > 0
            /\ tables[tb].strong = Referrers(tb)

\* a table freed by the destroy of its last handle, after its context
C2_Witness ==
    /\ ret.op = "destroy"
    /\ LiveContexts = {}
    /\ LiveHandles = {}
    /\ \A tb \in TablePtrs : ~tables[tb].alive
    /\ \E h \in HandlePtrs : handles[h].status = "freed"
    /\ \A t \in Threads : threads[t].pc = "idle"

----------------------------------------------------------------------------
(* C3: no call with a destroyed handle or context dereferences it or        *)
(* destroys it a second time: every call returns normally.                  *)
C3_NoUseAfterDestroy == ub = "none"

----------------------------------------------------------------------------
(* C4: an operation on one id never changes the predictor stored under      *)
(* another id.  Whenever a step changes or removes the predictor under id j *)
(* of a table, it is the critical section of a call addressed at j of that  *)
(* table; and the result of a call is the one that the predictor under its  *)
(* own id determines.                                                       *)
C4_Isolation ==
    [][ub' = "none" =>
        /\ \A tb \in TablePtrs : \A j \in DOMAIN tables[tb].predictors :
               (\/ j \notin DOMAIN tables'[tb].predictors
                \/ tables'[tb].predictors[j] # tables[tb].predictors[j])
               => \E t \in Threads :
                      /\ OpStep(t, threads[t].call)
                      /\ threads[t].tbl = tb
                      /\ TargetId(t) = j
        /\ \A t \in Threads :
               OpStep(t, "handle_op") =>
                   LET found == GetPredictor(tables[threads[t].tbl], TargetId(t))
                   IN \E s \in FfiSamples \cup {NoSample} :
                          /\ ret'.code = HandleResult(ret'.op, found, s).code
                          /\ ret'.out = HandleResult(ret'.op, found, s).out
      ]_vars

\* two predictors of one table hold different gestures, and one of them has
\* just returned a prediction
C4_Witness ==
    /\ ret.op = "get_prediction"
    /\ ret.out.kind = "Ok"
    /\ \E tb \in TablePtrs : \E i, j \in DOMAIN tables[tb].predictors :
           /\ i # j
           /\ Len(tables[tb].predictors[i].touch_buffer) = 2
           /\ Len(tables[tb].predictors[j].touch_buffer) = 1

----------------------------------------------------------------------------
(* C5: the table and the id counter are read and written only by the thread *)
(* that holds the table's lock, and at most one thread holds it.  The       *)
(* critical sections on one table are therefore totally ordered.            *)
Holders(tb) ==
    {t \in Threads : threads[t].pc = "locked" /\ threads[t].tbl = tb
                     /\ ~threads[t].dangling}

MutexInv ==
    \A tb \in TablePtrs :
        tables[tb].alive =>
            /\ Cardinality(Holders(tb)) <= 1
            /\ tables[tb].locked_by = 0 => Holders(tb) = {}
            /\ tables[tb].locked_by # 0 =>
                   /\ threads[tables[tb].locked_by].pc = "locked"
                   /\ threads[tables[tb].locked_by].tbl = tb
                   /\ Holders(tb) \subseteq {tables[tb].locked_by}

C5_LockDiscipline ==
    [][/\ MutexInv'
       /\ \A tb \in TablePtrs :
              (/\ tables[tb].alive
               /\ tables'[tb].alive
               /\ \/ tables'[tb].predictors # tables[tb].predictors
                  \/ tables'[tb].next_id # tables[tb].next_id)
              => \E t \in Threads :
                     /\ tables[tb].locked_by = t
                     /\ OpStep(t, threads[t].call)
                     /\ threads[t].tbl = tb
                     /\ tables'[tb].locked_by = 0
      ]_vars

\* one thread is in its critical section while another waits for the lock
\* of the same table
C5_Witness ==
    \E t, u \in Threads :
        /\ t # u
        /\ threads[t].pc = "locked"
        /\ threads[u].pc = "destroy_wait"
        /\ threads[t].tbl = threads[u].tbl
        /\ tables[threads[t].tbl].locked_by = t

----------------------------------------------------------------------------
(* C6: the live handles of one table have pairwise different ids, also      *)
(* after the id counter has wrapped around.                                 *)
C6_UniqueIds ==
    \A h1, h2 \in LiveHandles :
        (h1 # h2 /\ handles[h1].context = handles[h2].context)
            => handles[h1].predictor_id # handles[h2].predictor_id

----------------------------------------------------------------------------
(* C7: a table never holds more than MAX_PREDICTORS predictors: only a      *)
(* create_in_context adds an entry, and only to a table below the limit.  A *)
(* create_in_context that reached its critical section returns null exactly *)
(* when the table holds MAX_PREDICTORS entries, and the table does not      *)
(* change between its lock() and its critical section.                      *)
C7_Capacity ==
    [][/\ \A tb \in TablePtrs : MapLen(tables'[tb].predictors) <= MaxPredictors
       /\ \A tb \in TablePtrs :
              MapLen(tables'[tb].predictors) > MapLen(tables[tb].predictors) =>
                  /\ MapLen(tables[tb].predictors) < MaxPredictors
                  /\ MapLen(tables'[tb].predictors) = MapLen(tables[tb].predictors) + 1
                  /\ \E t \in Threads :
                         OpStep(t, "create_in_context") /\ threads[t].tbl = tb
       /\ \A t \in Threads :
              OpStep(t, "create_in_context") =>
                  /\ ret'.op = "create_in_context"
                  /\ ret'.code = NULL
                         <=> MapLen(tables[threads[t].tbl].predictors) = MaxPredictors
       /\ \A t \in Threads :
              (/\ threads[t].pc = "locked"
               /\ threads[t].call = "create_in_context"
               /\ ~threads[t].dangling
               /\ threads'[t] = threads[t])
              => tables'[threads[t].tbl].predictors
                     = tables[threads[t].tbl].predictors
      ]_vars

\* a create has just failed on a full table
C7_Witness ==
    /\ ret.op = "create_in_context"
    /\ ret.code = NULL
    /\ \E tb \in TablePtrs : MapLen(tables[tb].predictors) = MaxPredictors

----------------------------------------------------------------------------
(* C8: on a full table the destroy of a live handle frees exactly one slot, *)
(* the next create succeeds and fills the table again, and the create after *)
(* that fails.                                                              *)
C8_DestroyFreesOneSlot ==
    [][\A t \in Threads :
        LET tb == threads[t].tbl
            before == MapLen(tables[tb].predictors)
            after == MapLen(tables'[tb].predictors)
        IN /\ (OpStep(t, "destroy") /\ before = MaxPredictors)
                  => after = MaxPredictors - 1
           /\ (OpStep(t, "create_in_context") /\ before = MaxPredictors - 1)
                  => (ret'.code # NULL /\ after = MaxPredictors)
           /\ (OpStep(t, "create_in_context") /\ before = MaxPredictors)
                  => (ret'.code = NULL /\ after = MaxPredictors)
      ]_vars

----------------------------------------------------------------------------
(* Steps of SpecPredictor *)

\* the step is a call of add_touch_point
GpAddStep == gpRet'.op = "add_touch_point"

Minimum(a, b) == IF a < b THEN a ELSE b

\* the last n elements of a sequence
LastN(seq, n) == SubSeq(seq, Len(seq) - n + 1, Len(seq))

----------------------------------------------------------------------------
(* C9: after any calls of add_touch_point, accepted or rejected, the buffer *)
(* of capacity C holds exactly the last min(C, accepted) accepted samples   *)
(* in the order of acceptance, with non-decreasing timestamps, and never    *)
(* more than C.                                                             *)
C9_BufferWindow ==
    /\ Len(gp.touch_buffer) <= gp.buffer_size
    /\ gp.touch_buffer = LastN(accepted, Minimum(gp.buffer_size, Len(accepted)))
    /\ \A i \in 1..(Len(gp.touch_buffer) - 1) :
           gp.touch_buffer[i].t <= gp.touch_buffer[i + 1].t

\* samples have been evicted, and the last call was rejected
C9_Witness ==
    /\ Len(accepted) > gp.buffer_size
    /\ gpRet.op = "add_touch_point"
    /\ gpRet.res = "TimestampOutOfOrder"

----------------------------------------------------------------------------
(* C10: add_touch_point(x, y, t) accepts the sample if and only if t is     *)
(* finite, not negative and not below the timestamp of the last buffered    *)
(* sample; an equal timestamp is accepted, a smaller one is rejected with   *)
(* TimestampOutOfOrder, a negative or non-finite one with InvalidTimestamp. *)
C10_Acceptance ==
    [][GpAddStep =>
        LET ts == gpRet'.ts
            valid == ts.k = "num" /\ ts.v >= 0
            n == Len(gp.touch_buffer)
            inOrder == n = 0 \/ ts.v >= gp.touch_buffer[n].t
        IN /\ gpRet'.res = "Ok" <=> (valid /\ inOrder)
           /\ gpRet'.res = "InvalidTimestamp" <=> ~valid
           /\ gpRet'.res = "TimestampOutOfOrder" <=> (valid /\ ~inOrder)
           /\ gpRet'.res = "Ok" =>
                  /\ Len(gp'.touch_buffer) > 0
                  /\ gp'.touch_buffer[Len(gp'.touch_buffer)]
                         = [x |-> gpRet'.x, y |-> gpRet'.y, t |-> ts.v]
           /\ gpRet'.res # "Ok" => gp' = gp
      ]_vars

\* a sample with the timestamp of the one before it has just been accepted
C10_Witness ==
    /\ gpRet.op = "add_touch_point"
    /\ gpRet.res = "Ok"
    /\ Len(gp.touch_buffer) >= 2
    /\ gp.touch_buffer[Len(gp.touch_buffer)].t
           = gp.touch_buffer[Len(gp.touch_buffer) - 1].t

----------------------------------------------------------------------------
(* Steps of SpecPredictor, continued *)

\* the step is a call of add_touch_point that was rejected
GpRejectStep ==
    /\ GpAddStep
    /\ gpRet'.res \in {"InvalidTimestamp", "TimestampOutOfOrder"}

\* the step is a call of reset, of predict
GpResetStep == gpRet'.op = "reset"
GpPredictStep == gpRet'.op = "predict"

\* the buffer of p holds at least two samples
Ready(p) == Len(p.touch_buffer) >= 2

\* timestamp of the newest sample in the buffer minus that of the oldest
BufferedSpan(p) == p.touch_buffer[Len(p.touch_buffer)].t - p.touch_buffer[1].t

----------------------------------------------------------------------------
(* C11: a rejected add_touch_point (InvalidTimestamp, TimestampOutOfOrder)  *)
(* leaves the predictor as it was: the buffer, its length, the start time   *)
(* of the gesture and the configuration.  The predictor being the same, so  *)
(* is everything a later call does with it.                                 *)
C11_RejectedUnchanged ==
    [][GpRejectStep =>
        /\ gp'.touch_buffer = gp.touch_buffer
        /\ Len(gp'.touch_buffer) = Len(gp.touch_buffer)
        /\ gp'.gesture_start_time = gp.gesture_start_time
        /\ gp' = gp
        /\ accepted' = accepted
      ]_vars

\* a non-finite timestamp has just been rejected by a predictor that holds
\* two samples
C11_Witness ==
    /\ gpRet.op = "add_touch_point"
    /\ gpRet.res = "InvalidTimestamp"
    /\ gpRet.ts = NaN
    /\ Len(gp.touch_buffer) = 2
    /\ gp.gesture_start_time # None

----------------------------------------------------------------------------
(* C12: gesture_start_time is None exactly when the buffer is empty, and    *)
(* otherwise it is the timestamp of the first sample accepted since the     *)
(* creation or the last reset, whatever was accepted, rejected or evicted   *)
(* since.                                                                   *)
C12_GestureStart ==
    /\ gp.gesture_start_time = None <=> Len(gp.touch_buffer) = 0
    /\ gp.gesture_start_time =
           IF accepted = <<>> THEN None ELSE Some(accepted[1].t)

\* the first accepted sample has been evicted, the oldest sample in the
\* buffer is a later one, and a call has been rejected since
C12_Witness ==
    /\ Len(accepted) > gp.buffer_size
    /\ gp.touch_buffer[1].t # accepted[1].t
    /\ gp.gesture_start_time = Some(accepted[1].t)
    /\ gpRet.res = "InvalidTimestamp"

----------------------------------------------------------------------------
(* C13: reset from any state leaves the predictor empty, without buffered   *)
(* samples and without start time, its capacity and configuration as they   *)
(* were; predict then fails with InsufficientData, and add_touch_point      *)
(* accepts every timestamp that is finite and not negative, whatever the    *)
(* buffer held before the reset.                                            *)
C13_ResetEmpties ==
    [][GpResetStep =>
        /\ gp'.touch_buffer = <<>>
        /\ gp'.gesture_start_time = None
        /\ gp'.buffer_size = gp.buffer_size
        /\ gp'.physics_config = gp.physics_config
        /\ Predict(gp').kind = "InsufficientData"
        /\ \A x \in GpXs, ts \in GpTimestamps :
               AddTouchPoint(gp', x, F(0), ts).res = "Ok" <=> (ts.k = "num" /\ ts.v >= 0)
        /\ \A x \in GpXs, ts \in GpTimestamps :
               (Len(gp.touch_buffer) > 0
                /\ ts.k = "num" /\ ts.v >= 0
                /\ ts.v < gp.touch_buffer[Len(gp.touch_buffer)].t)
               => /\ AddTouchPoint(gp, x, F(0), ts).res = "TimestampOutOfOrder"
                  /\ AddTouchPoint(gp', x, F(0), ts).res = "Ok"
      ]_vars

\* a reset has just returned and the predictor is empty
C13_Witness ==
    /\ gpRet.op = "reset"
    /\ gpRet.res = "Ok"
    /\ gp.touch_buffer = <<>>
    /\ gp.gesture_start_time = None
    /\ accepted = <<>>

----------------------------------------------------------------------------
(* C15: predict fails with InsufficientData if and only if the buffer holds *)
(* fewer than two samples.                                                  *)
C15_InsufficientData ==
    [][GpPredictStep =>
        (gpRet'.res = "InsufficientData" <=> ~Ready(gp))
      ]_vars

\* predict has just returned a prediction from a buffer of two samples
C15_Witness ==
    /\ gpRet.op = "predict"
    /\ gpRet.res = "Ok"
    /\ Len(gp.touch_buffer) = 2

----------------------------------------------------------------------------
(* C16, as claimed: with at least two samples in the buffer, predict fails  *)
(* with GestureTooShort exactly when the timestamp of the newest sample in  *)
(* the buffer minus that of the oldest sample in the buffer is below        *)
(* min_gesture_time_ms.                                                     *)
C16_TooShortIffBufferedSpanShort ==
    [][(GpPredictStep /\ Ready(gp)) =>
        (gpRet'.res = "GestureTooShort"
            <=> BufferedSpan(gp) < gp.physics_config.min_gesture_time_ms.v)
      ]_vars

(* C16, amended: with at least two samples in the buffer, predict fails     *)
(* with GestureTooShort exactly when the timestamp of the newest sample in  *)
(* the buffer minus the timestamp of the first sample accepted since the    *)
(* creation or the last reset (which may have been evicted) is below        *)
(* min_gesture_time_ms.                                                     *)
C16_TooShortIffGestureShort ==
    [][(GpPredictStep /\ Ready(gp)) =>
        (gpRet'.res = "GestureTooShort"
            <=> gp.touch_buffer[Len(gp.touch_buffer)].t - accepted[1].t
                    < gp.physics_config.min_gesture_time_ms.v)
      ]_vars

\* predict has just passed the check of the duration although the samples
\* left in the buffer span less than min_gesture_time_ms
C16_Witness ==
    /\ gpRet.op = "predict"
    /\ Ready(gp)
    /\ gpRet.res \notin {"GestureTooShort", "InsufficientData"}
    /\ BufferedSpan(gp) < gp.physics_config.min_gesture_time_ms.v
    /\ gp.touch_buffer[Len(gp.touch_buffer)].t - accepted[1].t
           >= gp.physics_config.min_gesture_time_ms.v

----------------------------------------------------------------------------
(* Steps of Spec, continued *)

\* the entry points that only read the predictor
QueryOps == {"get_prediction", "detect_cancellation"}

\* thread t returns from swipe_predictor_get_prediction or
\* swipe_predictor_detect_cancellation in this step
QueryStep(t) == OpStep(t, "handle_op") /\ ret'.op \in QueryOps

----------------------------------------------------------------------------
(* C14: get_prediction and detect_cancellation are queries.  Whether they   *)
(* succeed or fail, the call leaves every predictor of the table (buffer    *)
(* and start time), the set of ids, the id counter, the handles and the     *)
(* contexts as they were, and the same call made again on the state it      *)
(* leaves returns the same result.                                          *)
C14_QueriesDoNotMutate ==
    [][\A t \in Threads :
        QueryStep(t) =>
            LET tb == threads[t].tbl
                id == handles[threads[t].ptr].predictor_id
                again == HandleResult(ret'.op, GetPredictor(tables'[tb], id), NoSample)
            IN /\ tables'[tb].predictors = tables[tb].predictors
               /\ DOMAIN tables'[tb].predictors = DOMAIN tables[tb].predictors
               /\ tables'[tb].next_id = tables[tb].next_id
               /\ tables'[tb].physics_config = tables[tb].physics_config
               /\ handles' = handles
               /\ contexts' = contexts
               /\ again.code = ret'.code
               /\ again.out = ret'.out
      ]_vars

\* a get_prediction has just failed on a predictor with one sample, in a
\* table whose id counter has advanced
C14_Witness ==
    /\ ret.op = "get_prediction"
    /\ ret.code = 0
    /\ \E tb \in TablePtrs :
           /\ tables[tb].next_id > 0
           /\ DOMAIN tables[tb].predictors # {}
           /\ \A i \in DOMAIN tables[tb].predictors :
                  Len(tables[tb].predictors[i].touch_buffer) = 1

----------------------------------------------------------------------------
(* C19, as claimed: the lock is never held while the prediction math runs:  *)
(* the step in which a thread computes a prediction or the cancellation     *)
(* test for a predictor it found starts in a state where that thread does   *)
(* not hold the table's lock.                                               *)
C19_NoMathUnderLock ==
    [][\A t \in Threads :
        (QueryStep(t) /\ GetPredictor(tables[threads[t].tbl], TargetId(t)) # None)
            => tables[threads[t].tbl].locked_by # t
      ]_vars

(* C19, amended: the lock is held only inside an entry-point call, across   *)
(* the table lookup or mutation and the operation on the predictor found,   *)
(* prediction math included, and is released when the call returns: no      *)
(* thread outside a critical section holds a lock, the step that looks up   *)
(* and operates is taken by the holder of the lock, and it leaves the table *)
(* unlocked.                                                                *)
C19_LockWithinCall ==
    [][/\ \A tb \in TablePtrs : \A t \in Threads :
              (tables'[tb].alive /\ tables'[tb].locked_by = t)
                  => (threads'[t].pc = "locked" /\ threads'[t].tbl = tb)
       /\ \A t \in Threads :
              OpStep(t, threads[t].call) =>
                  /\ tables[threads[t].tbl].locked_by = t
                  /\ tables'[threads[t].tbl].locked_by = 0
       /\ \A t \in Threads :
              QueryStep(t) =>
                  LET found == GetPredictor(tables[threads[t].tbl], TargetId(t))
                  IN /\ ret'.op = "get_prediction" /\ found # None =>
                            ret'.code = (IF Predict(found[1]).kind = "Ok" THEN 1 ELSE 0)
                     /\ ret'.op = "detect_cancellation" /\ found # None =>
                            ret'.code = (IF DetectCancellation(found[1]) THEN 1 ELSE 0)
      ]_vars

\* a prediction has just been returned, its table is unlocked again and
\* its context is still alive
C19_Witness ==
    /\ ret.op = "get_prediction"
    /\ ret.code = 1
    /\ LiveContexts # {}
    /\ \A tb \in TablePtrs : tables[tb].alive => tables[tb].locked_by = 0
    /\ \A t \in Threads : threads[t].pc = "idle"

----------------------------------------------------------------------------
(* Steps of SpecFault *)

\* the entry points wrapped in catch_unwind that take the lock
GuardedCalls == {"create_in_context", "handle_op"}

\* a panic unwinds the critical section of thread t in this step
PanicStep(t) ==
    /\ OpStep(t, threads[t].call)
    /\ ~tables[threads[t].tbl].poisoned
    /\ tables'[threads[t].tbl].poisoned

\* thread t leaves a critical section that found the lock poisoned
PoisonedStep(t) ==
    /\ OpStep(t, threads[t].call)
    /\ tables[threads[t].tbl].poisoned

\* the ids that a live handle, or a destroy on its way, refers to in tb
ReferredIds(tb) ==
    {handles[h].predictor_id : h \in {g \in LiveHandles : handles[g].context = tb}}
    \cup {threads[t].id : t \in {u \in Threads : threads[u].call = "destroy"
                                                /\ threads[u].tbl = tb}}

----------------------------------------------------------------------------
----------------------------------------------------------------------------
(* C18: once the lock of a table is poisoned, every create_in_context,      *)
(* add_point, get_prediction, reset and detect_cancellation on the table    *)
(* returns null or 0 and leaves the table and the handles as they were; no  *)
(* call waits for ever, since the lock is only ever held by a thread inside *)
(* its critical section, which releases it with its next step; and destroy  *)
(* frees the handle, gives up its reference to the table and returns.       *)
C18_PoisonedDegrades ==
    [][/\ \A t \in Threads :
              (PoisonedStep(t) /\ threads[t].call \in GuardedCalls) =>
                  LET tb == threads[t].tbl IN
                  /\ ret'.op \in HandleOps \cup {"create_in_context"}
                  /\ ret'.code = 0
                  /\ ret'.out = NoPrediction
                  /\ tables' = [tables EXCEPT ![tb].locked_by = 0]
                  /\ handles' = handles
                  /\ contexts' = contexts
       /\ \A t \in Threads :
              (PoisonedStep(t) /\ threads[t].call = "destroy") =>
                  LET tb == threads[t].tbl IN
                  /\ ret' = Return("destroy", 0)
                  /\ tables'[tb] =
                         IF tables[tb].strong = 1 THEN BlankTable
                         ELSE [tables[tb] EXCEPT !.locked_by = 0, !.strong = @ - 1]
       /\ \A h \in LiveHandles :
              (/\ ub' = "none"
               /\ tables[handles[h].context].poisoned
               /\ handles'[h].status # "live") =>
                  /\ handles'[h].status = "freed"
                  /\ \E t \in Threads :
                         /\ threads[t].pc = "idle"
                         /\ threads'[t].pc = "destroy_wait"
                         /\ threads'[t].tbl = handles[h].context
       /\ \A tb \in TablePtrs :
              (tables'[tb].alive /\ tables'[tb].poisoned /\ tables'[tb].locked_by # 0) =>
                  LET t == tables'[tb].locked_by IN
                  /\ threads'[t].pc = "locked"
                  /\ threads'[t].tbl = tb
      ]_vars

\* a destroy has just returned from a poisoned table that lives on, and
\* the predictor of its handle is still in the table
C18_Witness ==
    /\ ret.op = "destroy"
    /\ \E tb \in TablePtrs :
           /\ tables[tb].alive
           /\ tables[tb].poisoned
           /\ DOMAIN tables[tb].predictors \ ReferredIds(tb) # {}

----------------------------------------------------------------------------
(* The configurations C20 calls valid, and the field it expects an          *)
(* InvalidConfiguration to name.                                            *)
C20_FiniteAbove(a, low, strict) ==
    /\ a.k = "num"
    /\ IF strict THEN a.v > low ELSE a.v >= low

C20_ValidConfig(c) ==
    /\ C20_FiniteAbove(c.deceleration_rate, 0, TRUE)
    /\ C20_FiniteAbove(c.min_velocity_threshold, 0, FALSE)
    /\ C20_FiniteAbove(c.min_gesture_time_ms, 0, FALSE)

C20_FirstOffending(c) ==
    IF ~C20_FiniteAbove(c.deceleration_rate, 0, TRUE) THEN "deceleration_rate"
    ELSE IF ~C20_FiniteAbove(c.min_velocity_threshold, 0, FALSE) THEN "min_velocity_threshold"
    ELSE IF ~C20_FiniteAbove(c.min_gesture_time_ms, 0, FALSE) THEN "min_gesture_time_ms"
    ELSE ""

----------------------------------------------------------------------------
(* C20: swipe_predictor_context_create creates a registry if and only if    *)
(* deceleration_rate is finite and > 0, min_velocity_threshold is finite    *)
(* and >= 0 and min_gesture_time_ms is finite and >= 0.  Otherwise it       *)
(* returns null and no context or table is created, and the error of        *)
(* validate names the first field, in this order, that is out of range.     *)
C20_CreateIffValid ==
    [][\A c \in AllConfigs :
        (ret'.op = "context_create" /\ \E t \in Threads : ContextCreate(t, c)) =>
            /\ Validate(c).ok <=> C20_ValidConfig(c)
            /\ Validate(c).field = C20_FirstOffending(c)
            /\ GesturePredictorNew(c) # None <=> C20_ValidConfig(c)
            /\ IF C20_ValidConfig(c)
               THEN /\ ret'.code \in ContextPtrs
                    /\ contexts[ret'.code].status # "live"
                    /\ contexts'[ret'.code].status = "live"
                    /\ ~tables[contexts'[ret'.code].inner].alive
                    /\ tables'[contexts'[ret'.code].inner]
                           = PredictorContextNew(c)
               ELSE /\ ret'.code = NULL
                    /\ contexts' = contexts
                    /\ tables' = tables
                    /\ handles' = handles
      ]_vars

\* a context_create has just returned null, and there is no context and no
\* table
C20_Witness ==
    /\ ret = Return("context_create", NULL)
    /\ \A c \in ContextPtrs : contexts[c].status = "unalloc"
    /\ \A tb \in TablePtrs : ~tables[tb].alive
    /\ ub = "none"

----------------------------------------------------------------------------
\* a step of detect_cancellation
GpDetectStep == gpRet'.op = "detect_cancellation" /\ gp' = gp

\* the dot product of the last two displacements of a buffer of three or
\* more samples with finite coordinates
LastDot(buf) ==
    LET n == Len(buf)
        p1 == buf[n - 2]
        p2 == buf[n - 1]
        p3 == buf[n]
    IN (p2.x.v - p1.x.v) * (p3.x.v - p2.x.v) + (p2.y.v - p1.y.v) * (p3.y.v - p2.y.v)

(* C21: detect_cancellation returns false whenever the buffer holds fewer   *)
(* than 3 samples, and true whenever it holds at least 3 samples and the    *)
(* dot product of the last two displacements (p2 - p1 and p3 - p2 of the    *)
(* last three samples) is negative.                                         *)
C21_Cancellation ==
    [][GpDetectStep =>
        /\ Len(gp.touch_buffer) < 3 => gpRet'.res = "false"
        /\ (Len(gp.touch_buffer) >= 3 /\ LastDot(gp.touch_buffer) < 0)
               => gpRet'.res = "true"
      ]_vars

\* a reversal 0, 20, 0 was reported as a cancellation
C21_Witness ==
    /\ gpRet.op = "detect_cancellation"
    /\ gpRet.res = "true"
    /\ Len(gp.touch_buffer) = 3
    /\ LastDot(gp.touch_buffer) < 0

----------------------------------------------------------------------------
\* the typed failures of predict on a buffer of two or more samples
C22_Failures == {"GestureTooShort", "NumericalError", "VelocityTooLow"}

\* two or more samples, all at one position (as f64 compares: NaN equals
\* nothing)
C22_EqualPositions(buf) ==
    /\ Len(buf) >= 2
    /\ buf[1].x.k # "nan" /\ buf[1].y.k # "nan"
    /\ \A i \in 1..Len(buf) : buf[i].x = buf[1].x /\ buf[i].y = buf[1].y

\* ... and that position has finite coordinates
C22_SamePosition(buf) ==
    C22_EqualPositions(buf) /\ IsFinite(buf[1].x) /\ IsFinite(buf[1].y)

----------------------------------------------------------------------------
(* C27: every Prediction returned by predict has a confidence within        *)
(* [0, 1], for every buffer content and every valid configuration.          *)
C27_ConfidenceInRange ==
    (gpRet.op = "predict" /\ gpRet.res = "Ok")
        => /\ RLe(RInt(0), gpRet.out.confidence)
           /\ RLe(gpRet.out.confidence, RInt(1))

----------------------------------------------------------------------------
(* C28: for a velocity (v, 0) with v > 0 and v >= minVelocityThreshold,     *)
(* calculate_stopping_distance returns timeToStop = v / decelerationRate    *)
(* and the distance (v * v / (2 * decelerationRate), 0), so that            *)
(* v - decelerationRate * timeToStop = 0; with decelerationRate = 1000 and  *)
(* v = 1000 that is timeToStop 1 and distance (500, 0).                     *)
C28_StoppingDistance ==
    (/\ physRet.op = "calculate_stopping_distance"
     /\ physRet.vy = 0
     /\ physRet.vx > 0
     /\ physRet.vx >= physRet.config.min_velocity_threshold.v)
        => LET a == physRet.config.deceleration_rate.v
               v == physRet.vx
               out == physRet.out
           IN /\ out.ok
              /\ out.t.d > 0 /\ out.t.n * a = v * out.t.d
              /\ out.x.d > 0 /\ out.x.n * 2 * a = v * v * out.x.d
              /\ out.y.d > 0 /\ out.y.n = 0
              /\ v * out.t.d - a * out.t.n = 0
              /\ (a = 1000 /\ v = 1000)
                     => /\ out.t = [n |-> 1, d |-> 1]
                        /\ out.x = [n |-> 500, d |-> 1]

\* the example of the specification was computed
C28_Witness ==
    /\ physRet.op = "calculate_stopping_distance"
    /\ physRet.config.deceleration_rate = F(1000)
    /\ physRet.vx = 1000 /\ physRet.vy = 0
    /\ physRet.out.ok
    /\ physRet.out.t = [n |-> 1, d |-> 1]
    /\ physRet.out.x = [n |-> 500, d |-> 1]

----------------------------------------------------------------------------
(* C25: every id returned by a successful init_predictor of the bridge is   *)
(* at least 1, after any number of creations and also after the counter     *)
(* has wrapped, so that -1 and 0 are returned only for a failure; and the   *)
(* id is not one that is still in the handle map.                           *)
C25_BridgeIds ==
    [][(legacyRet'.op = "init_predictor" /\ legacyRet'.created)
          => /\ legacyRet'.code >= 1
             /\ legacyRet'.code \notin DOMAIN bridge.handles
      ]_vars

----------------------------------------------------------------------------
(* C26: init_predictor_manager of the global-manager variant succeeds at    *)
(* most once.  When a manager exists the call returns 0 and the manager     *)
(* (configuration, predictors, id counter) is unchanged; a call with an     *)
(* invalid configuration returns 0 and installs no manager; a call that     *)
(* returns 1 found no manager and installed one.                            *)
C26_InitOnce ==
    [][legacyRet'.op = "init_predictor_manager"
          => /\ manager # None => (legacyRet'.code = 0 /\ manager' = manager)
             /\ ~C20_ValidConfig(legacyRet'.config)
                    => (legacyRet'.code = 0 /\ manager' = manager)
             /\ legacyRet'.code = 1 => (manager = None /\ manager' # None)
      ]_vars

----------------------------------------------------------------------------
\* thread t makes a call with a null pointer in this step: one of the four
\* handle operations or destroy with a null handle, get_prediction with a
\* null out pointer, context_destroy with a null context
C23_NullCall(t) ==
    \/ HandleLock(t, NULL)
    \/ DestroyEnter(t, NULL)
    \/ ContextDestroy(t, NULL)
    \/ \E h \in KnownHandlePtrs : GetPredictionNullOut(t, h)

(* C23: add_point, get_prediction, reset and detect_cancellation called     *)
(* with a null handle, and get_prediction called with a null out pointer,   *)
(* return 0; destroy and context_destroy with null do nothing.  None of     *)
(* these calls changes a context, a table, a predictor or a handle, takes   *)
(* a lock or is undefined behaviour.                                        *)
C23_NullSafe ==
    [][\A t \in Threads :
          C23_NullCall(t)
             => /\ ret' = Return(NullArg, 0)
                /\ UNCHANGED <<contexts, tables, handles, threads, ub>>
      ]_vars

\* a null call returned while a predictor held samples
C23_Witness ==
    /\ ub = "none"
    /\ ret = Return(NullArg, 0)
    /\ \E tb \in TablePtrs :
           /\ tables[tb].alive
           /\ \E id \in DOMAIN tables[tb].predictors :
                  Len(tables[tb].predictors[id].touch_buffer) > 0

----------------------------------------------------------------------------
\* the buffer buf with the sample s appended, the oldest evicted when full
C24_Appended(p, s) ==
    Append(IF Len(p.touch_buffer) >= p.buffer_size THEN Tail(p.touch_buffer)
           ELSE p.touch_buffer,
           [x |-> s.x, y |-> s.y, t |-> s.ts.v])

(* C24: swipe_predictor_add_point returns 1 if and only if the predictor    *)
(* of the handle is in the table and the sample was appended to its         *)
(* buffer; when it returns 0 the table and the buffer of every predictor    *)
(* are unchanged.                                                           *)
C24_AddPoint ==
    [][\A t \in Threads :
          (OpStep(t, "handle_op") /\ ret'.op = "add_point")
             => LET tb == threads[t].tbl
                    id == TargetId(t)
                    before == tables[tb].predictors
                    after == tables'[tb].predictors
                IN /\ ret'.code \in {0, 1}
                   /\ ret'.code = 1
                         <=> /\ id \in DOMAIN before
                             /\ \E s \in FfiSamples :
                                    after[id].touch_buffer = C24_Appended(before[id], s)
                   /\ ret'.code = 0 => after = before
                   /\ DOMAIN after = DOMAIN before
                   /\ \A other \in DOMAIN before \ {id} : after[other] = before[other]
                   /\ tables'[tb].next_id = tables[tb].next_id
      ]_vars

\* an add_point returned 1 and the buffer holds two samples
C24_Witness ==
    /\ ub = "none"
    /\ ret.op = "add_point" /\ ret.code = 1
    /\ \E tb \in TablePtrs :
           /\ tables[tb].alive
           /\ \E id \in DOMAIN tables[tb].predictors :
                  Len(tables[tb].predictors[id].touch_buffer) = 2

----------------------------------------------------------------------------
(* C29: swipe_predictor_destroy on a live handle removes exactly the table  *)
(* entry under the id of that handle: every other entry (buffer and start   *)
(* time of every other predictor) and the id counter are unchanged, and     *)
(* every other live handle still finds its predictor in the table.          *)
C29_DestroyRemovesOne ==
    [][\A t \in Threads :
          OpStep(t, "destroy")
             => LET tb == threads[t].tbl
                    id == threads[t].id
                IN /\ tables'[tb].alive
                         => /\ tables'[tb].predictors
                                  = MapRemove(tables[tb].predictors, id)
                            /\ tables'[tb].next_id = tables[tb].next_id
                   /\ \A h \in LiveHandles :
                          (/\ handles[h].context = tb
                           /\ handles[h].predictor_id \in DOMAIN tables[tb].predictors)
                             => handles[h].predictor_id \in DOMAIN tables'[tb].predictors
      ]_vars

----------------------------------------------------------------------------
(* C30: when the id of a handle is not in the table, add_point,             *)
(* get_prediction, reset and detect_cancellation through that handle        *)
(* return 0, change nothing in the table, and release the lock, so that     *)
(* the table can be locked again.                                           *)
C30_AbsentId ==
    [][\A t \in Threads :
          (OpStep(t, "handle_op") /\ TargetId(t) \notin DOMAIN tables[threads[t].tbl].predictors)
             => LET tb == threads[t].tbl
                IN /\ ret'.op \in HandleOps
                   /\ ret'.code = 0
                   /\ ret'.out = NoPrediction
                   /\ tables' = [tables EXCEPT ![tb].locked_by = 0]
                   /\ tables[tb].locked_by = t
                   /\ UNCHANGED <<contexts, handles>>
      ]_vars

\* a call through a live handle whose id is not in the table returned 0 and
\* left the mutex free
C30_Witness ==
    /\ ub = "none"
    /\ ret.op \in HandleOps /\ ret.code = 0
    /\ \E h \in LiveHandles :
           /\ tables[handles[h].context].alive
           /\ handles[h].predictor_id \notin DOMAIN tables[handles[h].context].predictors
           /\ tables[handles[h].context].locked_by = 0

----------------------------------------------------------------------------
(* C31: a create_in_context that fails because the table is full leaves the *)
(* table and the id counter unchanged (no id is consumed); a successful     *)
(* create increases the size of the table by exactly one and advances the   *)
(* id counter by exactly one (modulo 2^32).                                 *)
C31_CreateAccounting ==
    [][\A t \in Threads :
          OpStep(t, "create_in_context")
             => LET tb == threads[t].tbl
                    before == tables[tb]
                    after == tables'[tb]
                IN IF ret'.code = NULL
                   THEN /\ after.predictors = before.predictors
                        /\ after.next_id = before.next_id
                   ELSE /\ MapLen(after.predictors) = MapLen(before.predictors) + 1
                        /\ after.next_id = (before.next_id + 1) % IdModulus
      ]_vars

----------------------------------------------------------------------------
\* the positions k of the buffer whose sample is later than the one before
C32_PositivePairs(buf) == {k \in 2..Len(buf) : buf[k].t > buf[k - 1].t}

\* the first failure condition of predict that holds of the predictor gp,
\* in the order InsufficientData, GestureTooShort, NumericalError,
\* VelocityTooLow; "Ok" when none holds
C32_FirstFailure ==
    LET buf == gp.touch_buffer IN
    IF Len(buf) < 2 THEN "InsufficientData"
    ELSE IF buf[Len(buf)].t - accepted[1].t < gp.physics_config.min_gesture_time_ms.v
    THEN "GestureTooShort"
    ELSE IF C32_PositivePairs(buf) = {} THEN "NumericalError"
    ELSE IF RLt(Speed(CalculateWeightedVelocity(gp)),
                RInt(gp.physics_config.min_velocity_threshold.v))
    THEN "VelocityTooLow"
    ELSE "Ok"

(* C32: predict evaluates its failure conditions in a fixed order           *)
(* (InsufficientData for fewer than 2 samples, GestureTooShort,             *)
(* NumericalError of the velocity estimation, VelocityTooLow) and returns   *)
(* the first that holds; it returns a Prediction only when none holds.      *)
C32_FailureOrder ==
    [][GpPredictStep => gpRet'.res = C32_FirstFailure]_vars

\* predict answered GestureTooShort for a buffer on which the velocity
\* estimation fails as well
C32_Witness ==
    /\ gpRet.op = "predict"
    /\ gpRet.res = "GestureTooShort"
    /\ Len(gp.touch_buffer) >= 2
    /\ C32_PositivePairs(gp.touch_buffer) = {}

----------------------------------------------------------------------------
\* the sum over the positions S of the buffer of the weighted velocity
\* (x and y) and of the weight of the pair that ends at each position
RECURSIVE C33_SumOver(_, _)
C33_SumOver(buf, S) ==
    IF S = {} THEN [x |-> RInt(0), y |-> RInt(0), w |-> RInt(0)]
    ELSE LET k == CHOOSE i \in S : \A j \in S : i >= j
             rest == C33_SumOver(buf, S \ {k})
             dt_seconds == R(buf[k].t - buf[k - 1].t, 1000)
             weight == R((k - 1) * (k - 1), Len(buf) * Len(buf))
             vx == RDiv(RSub(RF(buf[k].x), RF(buf[k - 1].x)), dt_seconds)
             vy == RDiv(RSub(RF(buf[k].y), RF(buf[k - 1].y)), dt_seconds)
         IN [x |-> RAdd(rest.x, RMul(vx, weight)),
             y |-> RAdd(rest.y, RMul(vy, weight)),
             w |-> RAdd(rest.w, weight)]

(* C33: with at least 2 samples in the buffer, the weighted velocity        *)
(* estimation fails with NumericalError if and only if no consecutive pair  *)
(* of samples has a strictly positive time difference (all timestamps in    *)
(* the buffer are equal); otherwise its result is the weighted mean over    *)
(* the pairs with a positive time difference alone, the other pairs         *)
(* contributing nothing.                                                    *)
C33_VelocityEstimation ==
    Len(gp.touch_buffer) >= 2 =>
        LET buf == gp.touch_buffer
            v == CalculateWeightedVelocity(gp)
            kept == C33_SumOver(buf, C32_PositivePairs(buf))
        IN /\ v.res \in {"Ok", "NumericalError"}
           /\ v.res = "NumericalError" <=> C32_PositivePairs(buf) = {}
           /\ v.res = "NumericalError" <=> \A k \in 1..Len(buf) : buf[k].t = buf[1].t
           /\ v.res = "Ok" => /\ v.x = RDiv(kept.x, kept.w)
                              /\ v.y = RDiv(kept.y, kept.w)

\* predict returned a prediction from a buffer in which a pair with equal
\* timestamps was skipped
C33_Witness ==
    /\ gpRet.op = "predict"
    /\ gpRet.res = "Ok"
    /\ Len(gp.touch_buffer) >= 3
    /\ C32_PositivePairs(gp.touch_buffer) # 2..Len(gp.touch_buffer)

----------------------------------------------------------------------------
\* distance / dt * 1000 of the pair of samples that ends at position k, as
\* f64 computes it: x / 0 is infinite, 0 / 0 is NaN
C34_PairSpeed(buf, k) ==
    RMul(RDiv(DistanceTo(buf[k - 1], buf[k]), RInt(buf[k].t - buf[k - 1].t)),
         RInt(1000))

\* the speed b is strictly less than 0.9 times the speed a
C34_Slower(b, a) == RLt(b, RMul(a, R(9, 10)))

(* C34 as stated: the gesture counts as decelerating if and only if the     *)
(* buffer holds at least 4 samples and the 3 inter-sample speeds over the   *)
(* last 4 samples are each strictly less than 0.9 times the speed before    *)
(* it.                                                                      *)
C34_ThreeSpeeds ==
    LET buf == gp.touch_buffer
        n == Len(buf)
    IN IsGestureDecelerating(gp)
         <=> /\ n >= 4
             /\ C34_Slower(C34_PairSpeed(buf, n - 1), C34_PairSpeed(buf, n - 2))
             /\ C34_Slower(C34_PairSpeed(buf, n), C34_PairSpeed(buf, n - 1))

\* the positions among the last three of the buffer whose sample is later
\* than the one before, in order
C34_TimedPairs(buf) ==
    SelectSeq(<<Len(buf) - 2, Len(buf) - 1, Len(buf)>>,
              LAMBDA k : buf[k].t > buf[k - 1].t)

(* C34, amended: the gesture counts as decelerating if and only if the      *)
(* buffer holds at least 4 samples, at least 2 of the 3 consecutive pairs   *)
(* over the last 4 samples have a strictly positive time difference, and    *)
(* the speeds of those pairs are each strictly less than 0.9 times the      *)
(* speed of the pair before (pairs with equal timestamps are left out);     *)
(* with fewer than 4 samples it is never decelerating.                      *)
C34_TimedSpeeds ==
    LET buf == gp.touch_buffer
        n == Len(buf)
    IN IsGestureDecelerating(gp)
         <=> /\ n >= 4
             /\ Len(C34_TimedPairs(buf)) >= 2
             /\ \A i \in 1..(Len(C34_TimedPairs(buf)) - 1) :
                    C34_Slower(C34_PairSpeed(buf, C34_TimedPairs(buf)[i + 1]),
                               C34_PairSpeed(buf, C34_TimedPairs(buf)[i]))

\* predict halved the confidence of a gesture of four samples that slows
\* down over three pairs: 1000, 500, 0 pixels per second
C34_Witness ==
    /\ gpRet.op = "predict"
    /\ gpRet.res = "Ok"
    /\ Len(gp.touch_buffer) = 4
    /\ Len(C34_TimedPairs(gp.touch_buffer)) = 3
    /\ IsGestureDecelerating(gp)
    /\ RLt(RInt(0), gpRet.out.confidence)

----------------------------------------------------------------------------
(* C35: with at least 3 samples and no reversal (the dot product of the     *)
(* last two displacements is >= 0), detect_cancellation returns true if and *)
(* only if the gesture is decelerating and the weighted speed is strictly   *)
(* below 0.5 times min_velocity_threshold; it returns false whenever        *)
(* min_velocity_threshold is 0.                                             *)
C35_SlowCancellation ==
    [][(GpDetectStep /\ Len(gp.touch_buffer) >= 3 /\ LastDot(gp.touch_buffer) >= 0)
          => /\ gpRet'.res = "true"
                   <=> /\ IsGestureDecelerating(gp)
                       /\ RLt(Speed(CalculateWeightedVelocity(gp)),
                              R(gp.physics_config.min_velocity_threshold.v, 2))
             /\ gp.physics_config.min_velocity_threshold.v = 0
                   => gpRet'.res = "false"
      ]_vars

\* a gesture that slowed down to less than half the threshold, without a
\* reversal, was reported as cancelled
C35_Witness ==
    /\ gpRet.op = "detect_cancellation"
    /\ gpRet.res = "true"
    /\ Len(gp.touch_buffer) >= 3
    /\ LastDot(gp.touch_buffer) >= 0
    /\ IsGestureDecelerating(gp)

----------------------------------------------------------------------------
(* C37: in the bridge, after any sequence of init, create, remove, re-init  *)
(* and cleanup calls, every id in the handle map refers to a core handle    *)
(* that has not been destroyed, no core handle is destroyed twice (no two   *)
(* ids hold the same handle pointer), and every core handle that was        *)
(* created is still in the map or has been destroyed.                       *)
C37_HandleMap ==
    /\ \A id \in DOMAIN bridge.handles :
           bridge.heap[bridge.handles[id]].status = "live"
    /\ \A id1, id2 \in DOMAIN bridge.handles :
           id1 # id2 => bridge.handles[id1] # bridge.handles[id2]
    /\ \A p \in BridgePtrs :
           bridge.heap[p].status = "live"
              => \E id \in DOMAIN bridge.handles : bridge.handles[id] = p

----------------------------------------------------------------------------
(* C38: in the iOS bridge a call of init_predictor_manager with an invalid  *)
(* configuration leaves the context initialized before, its handle map and  *)
(* its predictors unchanged, so that the predictors created before the      *)
(* call stay usable.                                                        *)
C38_FailedInitKeepsState ==
    [][(legacyRet'.op = "init_predictor_manager" /\ ~C20_ValidConfig(legacyRet'.config))
          => /\ bridge'.context = bridge.context
             /\ bridge'.handles = bridge.handles
             /\ bridge'.heap = bridge.heap
             /\ bridge'.next_id = bridge.next_id
      ]_vars

----------------------------------------------------------------------------
(* C39: an integer id issued before a re-initialization or a cleanup never  *)
(* addresses a predictor created after it: the id stays out of the handle   *)
(* map for the rest of the run, so that the operations on it keep returning *)
(* the failure value.                                                       *)
C39_StaleIdsStayDead ==
    \A id \in bridge.stale : id \notin DOMAIN bridge.handles

----------------------------------------------------------------------------
====
